---- MODULE Spec2Model ----
(***************************************************************************)
(* Ride-hailing backend: ride lifecycle (rideService, matchingService,     *)
(* tripService, driverService) and the payment pipeline (paymentService)   *)
(* over the relational store, the Redis cache / geo index and the          *)
(* distributed lock.  Each awaited database or Redis round trip of a       *)
(* service function is one step; steps of concurrent calls interleave.     *)
(***************************************************************************)
EXTENDS Integers, Sequences, FiniteSets, TLC

\* ---------------------------------------------------------------- bounds
MaxRides == 1
MaxDrivers == 2
MaxOffers == 2
MaxVersion == 6
MaxTrips == 2
MaxLate == 1
MaxKeys == 2
MaxCallers == 2
MaxPsp == 2
MaxRaceOffers == 3
MaxTenants == 2
MaxFareGrid == 4

MaxSockets == 2

MaxIntervals == 3

MaxRuns == 2

Rides == 1..MaxRides
Drivers == 1..MaxDrivers
NoDriver == 0
Keys == 1..MaxKeys
Callers == 1..MaxCallers
TripIds == 1..MaxTrips
Tenants == 1..MaxTenants

\* ------------------------------------------------------------- constants
RideStatuses ==
  {"REQUESTED", "MATCHING", "DRIVER_ASSIGNED", "DRIVER_EN_ROUTE",
   "DRIVER_ARRIVED", "IN_PROGRESS", "COMPLETED", "CANCELLED"}

DriverStatuses == {"online", "offline", "busy"}

OfferStatuses == {"pending", "accepted", "declined", "expired", "cancelled"}

\* rideService.STATUS_TRANSITIONS
STATUS_TRANSITIONS(s) ==
  CASE s = "REQUESTED"       -> {"MATCHING", "CANCELLED"}
    [] s = "MATCHING"        -> {"DRIVER_ASSIGNED", "CANCELLED"}
    [] s = "DRIVER_ASSIGNED" -> {"DRIVER_EN_ROUTE", "CANCELLED"}
    [] s = "DRIVER_EN_ROUTE" -> {"DRIVER_ARRIVED", "CANCELLED"}
    [] s = "DRIVER_ARRIVED"  -> {"IN_PROGRESS", "CANCELLED"}
    [] s = "IN_PROGRESS"     -> {"COMPLETED"}
    [] OTHER                 -> {}

\* tripService.updateRideStatusForTrip: validStatuses
validStatuses == {"DRIVER_EN_ROUTE", "DRIVER_ARRIVED"}

\* payments.payment_method and payments.status (CHECK constraints of the table)
PaymentMethods == {"cash", "card", "wallet"}

PaymentStatuses == {"pending", "processing", "completed", "failed", "refunded"}

\* executeTransaction(..., { maxRetries: 3 }) in processPayment
maxRetries == 3

VARIABLES
  rides,       \* rides table: [Rides -> [status, driver_id, version]]; status "NONE" = no row
  drivers,     \* drivers table: [Drivers -> [status]]
  offers,      \* ride_offers table, in insertion order: Seq([ride_id, driver_id, status])
  trips,       \* trips table, in insertion order: Seq([ride_id, status])
  rideCache,   \* Redis ride:<id>: the cached ride's status, "NONE" = no entry
  rowLock,     \* FOR UPDATE lock on rides[r] held by an open acceptRide transaction (driver) or 0
  distLock,    \* Redlock lock:ride:<id>: holder (driver) or 0
  lateWrites,  \* un-awaited MATCHING writes of findDriversForRide still in flight, per ride
  fd,          \* findDriversForRide call in progress, per ride: [pc, todo]
  acc,         \* acceptRide call of each driver: [pc, ride, snap, res]
  urs,         \* updateRideStatus call of each caller: [pc, ride, new, ev, res]
  cnl,         \* cancelRide: drivers whose "set online" write is still outstanding
  payments,    \* payments table, in insertion order: Seq([trip_id, method, status, key, ref])
  idem,        \* Redis payment:idempotency:<key>: the stored Payment, or NoPayment
  payLock,     \* Redis payment_lock:<tripId>: the holder's lock value (caller) or 0
  psp,         \* the mock PSP: [calls, completed], the charges it was asked for and made
  pay,         \* paymentService call of each caller: [pc, op, key, method, attempt, row, txrow, resp, prior, charged]
  ret,         \* per idempotency key, the Payment the first returned processPayment call answered
  tenant,      \* tenant_id of the rides and drivers rows: [ride : [Rides -> Tenants], driver : [Drivers -> Tenants]]
  geo,         \* Redis drivers:geo:<tier>: the drivers in the geo index
  sim,         \* simulationService.activeSimulations: the drivers with a running simulation
  loc,         \* driver_locations: the drivers with a last known location
  due,         \* the ride_offers rows whose expires_at has passed
  mwReq,       \* request of each client on a route behind the idempotency middleware: [pc, key, resp, ran, prior]
  mwLock,      \* Redis idempotency:<method>:<url>:<key>:lock, per key: held or not
  mwCache,     \* Redis idempotency:<method>:<url>:<key>, per key: the cached response, or NoResponse
  mwRuns,      \* how many times the route handler has run
  mwFirst,     \* per key, the response of the first request the handler or the cache answered
  wl,          \* withLock call of each caller: [pc, resource, res]
  fare,        \* a calculateFare call: its arguments and the breakdown returned
  sock,        \* per socket: connected, userId, userType, rooms joined, events received
  connectedClients,  \* userId -> set of socket ids
  topic,       \* notifications published and not yet consumed
  off,         \* the payment safeguard that is out of order, or "none"
  intervals,   \* the setInterval timers that run: [id, driverId, phase]
  activeSimulations,  \* driverId -> id of the interval registered, 0 for none
  simCall,     \* startDriverSimulation call of each caller: [pc, driverId, phase]
  created,     \* number of intervals created so far
  et,          \* endTrip call of each caller: [pc, trip, res]
  tripLock,    \* FOR UPDATE lock on trips[t] held by an open endTrip transaction (caller) or 0
  total_rides, \* drivers.total_rides: [Drivers -> Nat]
  xt           \* executeTransaction call of each caller: [pc, attempt, client, rolledBack, errors, waits, again, res]

rideVars == <<rides, drivers, offers, trips, rideCache, rowLock, distLock,
              lateWrites, fd, acc, urs, cnl>>

payVars == <<payments, idem, payLock, psp, pay, ret>>

envVars == <<tenant, geo, sim, loc, due>>

mwVars == <<mwReq, mwLock, mwCache, mwRuns, mwFirst>>

lockVars == <<wl>>

fareVars == <<fare>>

sockVars == <<sock, connectedClients, topic>>

cfgVars == <<off>>

simVars == <<intervals, activeSimulations, simCall, created>>

tripVars == <<et, tripLock, total_rides>>

txVars == <<xt>>

edgeVars == <<mwVars, lockVars, fareVars, sockVars, cfgVars, simVars, tripVars, txVars>>

vars == <<rides, drivers, offers, trips, rideCache, rowLock, distLock,
          lateWrites, fd, acc, urs, cnl, payments, idem, payLock, psp, pay, ret,
          tenant, geo, sim, loc, due, mwReq, mwLock, mwCache, mwRuns, mwFirst, wl, fare,
          sock, connectedClients, topic, off,
          intervals, activeSimulations, simCall, created,
          et, tripLock, total_rides, xt>>

\* ----------------------------------------------------------------- helpers
NoRide == [status |-> "NONE", driver_id |-> NoDriver, version |-> 0]

IdleFd == [pc |-> "idle", todo |-> {}]

IdleAcc == [pc |-> "idle", ride |-> 0, snap |-> 0, res |-> "none", attempt |-> 1]

IdleUrs == [pc |-> "idle", ride |-> 0, new |-> "NONE", ev |-> 0, res |-> "none"]

\* no payment: a cache miss, an empty result
NoPayment == [id |-> 0, trip_id |-> 0, method |-> "none", status |-> "none", key |-> 0, ref |-> 0]

\* a thrown error, in the shape of a response
Thrown(e) == [NoPayment EXCEPT !.status = e]

IdlePay == [pc |-> "idle", key |-> 0, trip |-> 0, method |-> "none", id |-> 0, attempt |-> 0,
            txrow |-> NoPayment, txid |-> 0, resp |-> NoPayment, prior |-> NoPayment,
            charged |-> FALSE, lockRead |-> 0]

\* no response: nothing cached, nothing answered yet
NoResponse == [statusCode |-> 0, body |-> 0]

IdleReq == [pc |-> "idle", key |-> 0, resp |-> NoResponse, ran |-> FALSE, prior |-> NoResponse]

IdleWl == [pc |-> "idle", resource |-> 0, res |-> "none"]

NoBreakdown ==
  [baseFare |-> 0, distanceFare |-> 0, timeFare |-> 0, surgeFare |-> 0,
   surgeMultiplier |-> 0, taxes |-> 0, subtotal |-> 0, total |-> 0]

\* no calculateFare call made
NoFare ==
  [tier |-> "economy", distanceKm |-> 0, durationMins |-> 0, surgeMultiplier |-> 100,
   returned |-> FALSE, breakdown |-> NoBreakdown]

\* the middleware at start
InitMw ==
  /\ mwReq = [c \in Callers |-> IdleReq]
  /\ mwLock = [k \in Keys |-> FALSE]
  /\ mwCache = [k \in Keys |-> NoResponse]
  /\ mwRuns = 0
  /\ mwFirst = [k \in Keys |-> NoResponse]

Sockets == 1..MaxSockets

\* the user id of the rider; the drivers' user ids are their driver ids
Rider == MaxDrivers + 1

UserIds == Drivers \cup {Rider}

NoSocket == [connected |-> FALSE, userId |-> 0, userType |-> "none", rooms |-> {}, received |-> {}]

Room(kind, id) == [kind |-> kind, id |-> id]

\* the room type:<userType>
TypeRoom(userType) == [kind |-> userType, id |-> 0]

\* no socket connected, no notification waiting
InitSock ==
  /\ sock = [s \in Sockets |-> NoSocket]
  /\ connectedClients = [u \in UserIds |-> {}]
  /\ topic = {}

IdleSimCall == [pc |-> "idle", driverId |-> 0, phase |-> "none"]

\* no simulation running, none being started
InitSim ==
  /\ intervals = {}
  /\ activeSimulations = [d \in Drivers |-> 0]
  /\ simCall = [c \in Callers |-> IdleSimCall]
  /\ created = 0

IdleEt == [pc |-> "idle", trip |-> 0, res |-> "none"]

\* no endTrip call in progress
InitTrip ==
  /\ et = [c \in Callers |-> IdleEt]
  /\ tripLock = [t \in TripIds |-> 0]
  /\ total_rides = [d \in Drivers |-> 0]

IdleXt == [pc |-> "idle", attempt |-> 0, client |-> FALSE, rolledBack |-> 0,
           errors |-> <<>>, waits |-> <<>>, again |-> FALSE, res |-> "none"]

\* no executeTransaction call in progress
InitTx == xt = [c \in Callers |-> IdleXt]

\* the middleware, the withLock callers and the sockets at start
InitEdge ==
  /\ InitSim
  /\ InitTrip
  /\ InitTx
  /\ wl = [c \in Callers |-> IdleWl]
  /\ fare = NoFare
  /\ InitSock
  /\ off = "none"
  /\ InitMw

OfferIdx == 1..Len(offers)

PaymentIdx == 1..Len(payments)

TripIdx == 1..Len(trips)

\* ------------------------------------------------------------------- Init
Init ==
  /\ rides = [r \in Rides |-> NoRide]
  /\ drivers \in [Drivers -> [status : {"online", "offline"}]]
  /\ offers = <<>>
  /\ trips = <<>>
  /\ rideCache = [r \in Rides |-> "NONE"]
  /\ rowLock = [r \in Rides |-> 0]
  /\ distLock = [r \in Rides |-> 0]
  /\ lateWrites = [r \in Rides |-> 0]
  /\ fd = [r \in Rides |-> IdleFd]
  /\ acc = [d \in Drivers |-> IdleAcc]
  /\ urs = [c \in Callers |-> IdleUrs]
  /\ cnl = {}
  /\ payments = <<>>
  /\ idem = [k \in Keys |-> NoPayment]
  /\ payLock = [t \in TripIds |-> 0]
  /\ psp = [calls |-> 0, completed |-> 0]
  /\ pay = [p \in Callers |-> IdlePay]
  /\ ret = [k \in Keys |-> NoPayment]
  /\ tenant = [ride |-> [r \in Rides |-> 1], driver |-> [d \in Drivers |-> 1]]
  /\ geo = Drivers
  /\ sim = {}
  /\ loc = Drivers
  /\ due = {}
  /\ InitEdge

\* ------------------------------------------------------------ rideService
\* createRide: INSERT INTO rides ... 'REQUESTED' (version defaults to 1), then
\* cacheSet(ride:<id>, ride)
createRide(r) ==
  /\ rides[r].status = "NONE"
  /\ rides' = [rides EXCEPT ![r] = [status |-> "REQUESTED", driver_id |-> NoDriver, version |-> 1]]
  /\ rideCache' = [rideCache EXCEPT ![r] = "REQUESTED"]
  /\ UNCHANGED <<drivers, offers, trips, rowLock, distLock, lateWrites, fd, acc, urs, cnl>>
  /\ UNCHANGED payVars
  /\ UNCHANGED envVars
  /\ UNCHANGED edgeVars

\* getRideById: cache-aside read; a miss reads the row and caches it
getRideById(r) ==
  /\ rides[r].status # "NONE"
  /\ rideCache[r] = "NONE"
  /\ rideCache' = [rideCache EXCEPT ![r] = rides[r].status]
  /\ UNCHANGED <<rides, drivers, offers, trips, rowLock, distLock, lateWrites, fd, acc, urs, cnl>>
  /\ UNCHANGED payVars
  /\ UNCHANGED envVars
  /\ UNCHANGED edgeVars

\* the 30 s TTL of ride:<id> runs out
rideCacheExpire(r) ==
  /\ rideCache[r] # "NONE"
  /\ rideCache' = [rideCache EXCEPT ![r] = "NONE"]
  /\ UNCHANGED <<rides, drivers, offers, trips, rowLock, distLock, lateWrites, fd, acc, urs, cnl>>
  /\ UNCHANGED payVars
  /\ UNCHANGED envVars
  /\ UNCHANGED edgeVars

\* updateRideStatus, first half: read the current status from the cache, else
\* from the table, and validate the transition against STATUS_TRANSITIONS
updateRideStatusRead(c, r, newStatus, expectedVersion) ==
  /\ urs[c].pc = "idle"
  /\ rides[r].status # "NONE"
  /\ LET cur == IF rideCache[r] # "NONE" THEN rideCache[r] ELSE rides[r].status
     IN newStatus \in STATUS_TRANSITIONS(cur)
  /\ urs' = [urs EXCEPT ![c] = [pc |-> "update", ride |-> r, new |-> newStatus,
                                 ev |-> expectedVersion, res |-> "none"]]
  /\ UNCHANGED <<rides, drivers, offers, trips, rideCache, rowLock, distLock, lateWrites, fd, acc, cnl>>
  /\ UNCHANGED payVars
  /\ UNCHANGED envVars
  /\ UNCHANGED edgeVars

\* updateRideStatus with an UPDATE that leaves out AND version = $3
updateRideStatusWriteUnversioned(c) ==
  /\ urs[c].pc = "update"
  /\ LET r == urs[c].ride
     IN /\ rowLock[r] = 0
        /\ rides[r].version < MaxVersion
        /\ rides' = [rides EXCEPT ![r].status = urs[c].new,
                                  ![r].version = rides[r].version + 1]
        /\ rideCache' = [rideCache EXCEPT ![r] = urs[c].new]
        /\ urs' = [urs EXCEPT ![c].pc = "done", ![c].res = "ok"]
  /\ UNCHANGED <<drivers, offers, trips, rowLock, distLock, lateWrites, fd, acc, cnl>>
  /\ UNCHANGED payVars
  /\ UNCHANGED envVars
  /\ UNCHANGED edgeVars

\* updateRideStatus, second half: UPDATE rides SET status, version = version + 1
\* WHERE id [AND version = expectedVersion]; rowCount 0 is ConflictError;
\* otherwise the updated row is cached and returned
updateRideStatusWrite(c) ==
  /\ urs[c].pc = "update"
  /\ LET r == urs[c].ride
     IN /\ rowLock[r] = 0
        /\ IF urs[c].ev = 0 \/ urs[c].ev = rides[r].version
             THEN /\ rides[r].version < MaxVersion
                  /\ rides' = [rides EXCEPT ![r].status = urs[c].new,
                                            ![r].version = rides[r].version + 1]
                  /\ rideCache' = [rideCache EXCEPT ![r] = urs[c].new]
                  /\ urs' = [urs EXCEPT ![c].pc = "done", ![c].res = "ok"]
             ELSE /\ urs' = [urs EXCEPT ![c].pc = "done", ![c].res = "ConflictError"]
                  /\ UNCHANGED <<rides, rideCache>>
  /\ UNCHANGED <<drivers, offers, trips, rowLock, distLock, lateWrites, fd, acc, cnl>>
  /\ UNCHANGED payVars
  /\ UNCHANGED envVars
  /\ UNCHANGED edgeVars

\* the caller has the answer of its updateRideStatus call
updateRideStatusReturn(c) ==
  /\ urs[c].pc = "done"
  /\ urs' = [urs EXCEPT ![c] = IdleUrs]
  /\ UNCHANGED <<rides, drivers, offers, trips, rideCache, rowLock, distLock, lateWrites, fd, acc, cnl>>
  /\ UNCHANGED payVars
  /\ UNCHANGED envVars
  /\ UNCHANGED edgeVars

\* cancelRide: UPDATE rides SET status = 'CANCELLED', version = version + 1
\* WHERE id AND status NOT IN ('COMPLETED','CANCELLED'); the driver's row is
\* set online by a second statement, issued after the first has committed
cancelRide(r) ==
  /\ rides[r].status \notin {"NONE", "COMPLETED", "CANCELLED"}
  /\ rowLock[r] = 0
  /\ rides[r].version < MaxVersion
  /\ rides' = [rides EXCEPT ![r].status = "CANCELLED",
                            ![r].version = rides[r].version + 1]
  /\ rideCache' = [rideCache EXCEPT ![r] = "NONE"]
  /\ cnl' = IF rides[r].driver_id # NoDriver THEN cnl \cup {rides[r].driver_id} ELSE cnl
  /\ UNCHANGED <<drivers, offers, trips, rowLock, distLock, lateWrites, fd, acc, urs>>
  /\ UNCHANGED payVars
  /\ UNCHANGED envVars
  /\ UNCHANGED edgeVars

\* cancelRide's UPDATE drivers SET status = 'online' WHERE id = ride.driver_id
cancelRideFreeDriver(d) ==
  /\ d \in cnl
  /\ acc[d].pc # "tx"
  /\ drivers' = [drivers EXCEPT ![d].status = "online"]
  /\ cnl' = cnl \ {d}
  /\ UNCHANGED <<rides, offers, trips, rideCache, rowLock, distLock, lateWrites, fd, acc, urs>>
  /\ UNCHANGED payVars
  /\ UNCHANGED envVars
  /\ UNCHANGED edgeVars

\* -------------------------------------------------------- matchingService
\* findDriversForRide, lines 45-60: read the ride, require REQUESTED or
\* MATCHING, and issue the MATCHING write without awaiting it
findDriversForRideRead(r) ==
  /\ fd[r].pc = "idle"
  /\ rides[r].status \in {"REQUESTED", "MATCHING"}
  /\ lateWrites[r] < MaxLate
  /\ lateWrites' = [lateWrites EXCEPT ![r] = lateWrites[r] + 1]
  /\ fd' = [fd EXCEPT ![r] = [pc |-> "nearby", todo |-> {}]]
  /\ UNCHANGED <<rides, drivers, offers, trips, rideCache, rowLock, distLock, acc, urs, cnl>>
  /\ UNCHANGED payVars
  /\ UNCHANGED envVars
  /\ UNCHANGED edgeVars

\* the un-awaited UPDATE rides SET status = 'MATCHING', updated_at = NOW()
\* WHERE id = $1 reaches the database
findDriversForRideLateWrite(r) ==
  /\ lateWrites[r] > 0
  /\ rowLock[r] = 0
  /\ rides' = [rides EXCEPT ![r].status = "MATCHING"]
  /\ lateWrites' = [lateWrites EXCEPT ![r] = lateWrites[r] - 1]
  /\ UNCHANGED <<drivers, offers, trips, rideCache, rowLock, distLock, fd, acc, urs, cnl>>
  /\ UNCHANGED payVars
  /\ UNCHANGED envVars
  /\ UNCHANGED edgeVars

\* findDriversForRide, lines 62-105: findNearbyDrivers answers with the drivers
\* of the geo index whose position is within the radius (nearby, decided by
\* the drivers' positions), of whatever tenant; none: the ride is written back
\* to REQUESTED; otherwise the candidates are those of them whose row has
\* status online
findDriversForRideNearby(r, nearby) ==
  /\ fd[r].pc = "nearby"
  /\ nearby \subseteq geo
  /\ IF nearby = {}
       THEN /\ rowLock[r] = 0
            /\ rides' = [rides EXCEPT ![r].status = "REQUESTED"]
            /\ fd' = [fd EXCEPT ![r] = IdleFd]
       ELSE LET online == {d \in nearby : drivers[d].status = "online"}
            IN /\ fd' = [fd EXCEPT ![r] = IF online = {} THEN IdleFd
                                          ELSE [pc |-> "offers", todo |-> online]]
               /\ UNCHANGED rides
  /\ UNCHANGED <<drivers, offers, trips, rideCache, rowLock, distLock, lateWrites, acc, urs, cnl>>
  /\ UNCHANGED payVars
  /\ UNCHANGED envVars
  /\ UNCHANGED edgeVars

\* the message publishNotification(userId, type, payload) puts on the
\* notifications topic; n tells apart two messages of the same content (the
\* offer_id of a RIDE_OFFER, the attempt that published a DRIVER_ASSIGNED)
Notification(userId, type, ride_id, driver_id, n) ==
  [userId |-> userId, type |-> type, ride_id |-> ride_id, driver_id |-> driver_id, n |-> n]

\* createRideOffer: INSERT INTO ride_offers (id, ride_id, driver_id, 'pending',
\* expires_at) ON CONFLICT DO NOTHING, with a fresh id; the inserts of one
\* call run in parallel. Then publishNotification(driverId, 'RIDE_OFFER',
\* {offer_id, ride_id, expires_at}).
createRideOffer(r, d) ==
  /\ fd[r].pc = "offers"
  /\ d \in fd[r].todo
  /\ Len(offers) < MaxOffers
  /\ offers' = Append(offers, [ride_id |-> r, driver_id |-> d, status |-> "pending"])
  /\ fd' = [fd EXCEPT ![r] = IF fd[r].todo = {d} THEN IdleFd
                             ELSE [pc |-> "offers", todo |-> fd[r].todo \ {d}]]
  /\ topic' = topic \cup {Notification(d, "RIDE_OFFER", r, d, Len(offers) + 1)}
  /\ UNCHANGED <<rides, drivers, trips, rideCache, rowLock, distLock, lateWrites, acc, urs, cnl>>
  /\ UNCHANGED payVars
  /\ UNCHANGED envVars
  /\ UNCHANGED <<mwVars, lockVars, fareVars, sock, connectedClients, cfgVars, simVars, tripVars, txVars>>

\* lockingService.acquireLock through Redlock: the lock is taken when free;
\* a lock still held when the retries run out makes acceptRide throw
\* LockAcquisitionError
acquireLock(d, r) ==
  /\ acc[d].pc = "idle"
  /\ IF distLock[r] = 0
       THEN /\ distLock' = [distLock EXCEPT ![r] = d]
            /\ acc' = [acc EXCEPT ![d] = [pc |-> "lock", ride |-> r, snap |-> 0, res |-> "none", attempt |-> 1]]
       ELSE /\ acc' = [acc EXCEPT ![d] = [IdleAcc EXCEPT !.ride = r, !.res = "LockAcquisitionError"]]
            /\ UNCHANGED distLock
  /\ UNCHANGED <<rides, drivers, offers, trips, rideCache, rowLock, lateWrites, fd, urs, cnl>>
  /\ UNCHANGED payVars
  /\ UNCHANGED envVars
  /\ UNCHANGED edgeVars

\* lockingService.acquireLock with Redlock unavailable (lines 48-54): every
\* caller is handed {resource, mockLock: true} and no key is set
acquireLockMock(d, r) ==
  /\ acc[d].pc = "idle"
  /\ acc' = [acc EXCEPT ![d] = [pc |-> "lock", ride |-> r, snap |-> 0, res |-> "none", attempt |-> 1]]
  /\ UNCHANGED <<rides, drivers, offers, trips, rideCache, rowLock, distLock, lateWrites, fd, urs, cnl>>
  /\ UNCHANGED payVars
  /\ UNCHANGED envVars
  /\ UNCHANGED edgeVars

HasPendingOffer(r, d) ==
  \E i \in OfferIdx : /\ offers[i].ride_id = r
                      /\ offers[i].driver_id = d
                      /\ offers[i].status = "pending"

\* the checks of acceptRide's transaction callback, lines 171-216
acceptRideCheck(d, r) ==
  IF rowLock[r] # 0 THEN "Conflict: Ride is being processed by another request"
  ELSE IF rides[r].status = "NONE" THEN "NotFound"
  ELSE IF rides[r].status # "MATCHING"
    THEN IF rides[r].driver_id # NoDriver
           THEN "Conflict: Ride has already been assigned to another driver"
           ELSE "InvalidStateTransition"
  ELSE IF drivers[d].status # "online" THEN "Conflict: Driver is not available"
  ELSE IF ~HasPendingOffer(r, d) THEN "Conflict: No pending offer for this driver"
  ELSE "ok"

\* acceptRide's transaction up to its UPDATEs: SELECT ... FOR UPDATE NOWAIT on
\* the ride, SELECT ... FOR UPDATE SKIP LOCKED on the driver, the pending-offer
\* check; a failed check rolls back and leaves for the finally block
acceptRideTx(d) ==
  /\ acc[d].pc = "lock"
  /\ LET r == acc[d].ride
         res == acceptRideCheck(d, r)
     IN IF res = "ok"
          THEN /\ rides[r].version < MaxVersion
               /\ rowLock' = [rowLock EXCEPT ![r] = d]
               /\ acc' = [acc EXCEPT ![d].pc = "tx", ![d].snap = Len(offers)]
          ELSE /\ acc' = [acc EXCEPT ![d].pc = "release", ![d].res = res]
               /\ UNCHANGED rowLock
  /\ UNCHANGED <<rides, drivers, offers, trips, rideCache, distLock, lateWrites, fd, urs, cnl>>
  /\ UNCHANGED payVars
  /\ UNCHANGED envVars
  /\ UNCHANGED edgeVars

\* the ride_offers rows after acceptRide's two UPDATEs (lines 232-239), which
\* see the rows that existed when the transaction took its snapshot
acceptRideOffers(d, r, snap) ==
  [i \in OfferIdx |->
     IF i <= snap /\ offers[i].ride_id = r /\ offers[i].driver_id = d
       THEN [offers[i] EXCEPT !.status = "accepted"]
     ELSE IF i <= snap /\ offers[i].ride_id = r /\ offers[i].status = "pending"
                       /\ offers[i].driver_id # d
       THEN [offers[i] EXCEPT !.status = "cancelled"]
     ELSE offers[i]]

\* acceptRide's batch of UPDATEs (lines 219-240), removeDriverLocation, cache
\* invalidation, startDriverSimulation and COMMIT
acceptRideCommit(d) ==
  /\ acc[d].pc = "tx"
  /\ LET r == acc[d].ride
     IN /\ rides' = [rides EXCEPT ![r] = [status |-> "DRIVER_ASSIGNED", driver_id |-> d,
                                          version |-> rides[r].version + 1]]
        /\ drivers' = [drivers EXCEPT ![d].status = "busy"]
        /\ offers' = acceptRideOffers(d, r, acc[d].snap)
        /\ rideCache' = [rideCache EXCEPT ![r] = "NONE"]
        /\ rowLock' = [rowLock EXCEPT ![r] = 0]
        /\ topic' = topic \cup {Notification(Rider, "DRIVER_ASSIGNED", r, d, acc[d].attempt)}
  /\ acc' = [acc EXCEPT ![d].pc = "release", ![d].res = "ok"]
  /\ geo' = geo \ {d}
  /\ sim' = sim \cup {d}
  /\ UNCHANGED <<trips, distLock, lateWrites, fd, urs, cnl>>
  /\ UNCHANGED payVars
  /\ UNCHANGED <<tenant, loc, due>>
  /\ UNCHANGED <<mwVars, lockVars, fareVars, sock, connectedClients, cfgVars, simVars, tripVars, txVars>>

\* acceptRide's callback from its UPDATEs to its return (lines 219-266), the
\* transaction still open: the UPDATEs wait for COMMIT, while
\* removeDriverLocation, invalidateRideCache, publishNotification(rider,
\* 'DRIVER_ASSIGNED') and startDriverSimulation take effect now
acceptRideCallback(d) ==
  /\ acc[d].pc = "tx"
  /\ LET r == acc[d].ride
     IN /\ rideCache' = [rideCache EXCEPT ![r] = "NONE"]
        /\ topic' = topic \cup {Notification(Rider, "DRIVER_ASSIGNED", r, d, acc[d].attempt)}
  /\ acc' = [acc EXCEPT ![d].pc = "commit"]
  /\ geo' = geo \ {d}
  /\ sim' = sim \cup {d}
  /\ UNCHANGED <<rides, drivers, offers, trips, rowLock, distLock, lateWrites, fd, urs, cnl>>
  /\ UNCHANGED payVars
  /\ UNCHANGED <<tenant, loc, due>>
  /\ UNCHANGED <<mwVars, lockVars, fareVars, sock, connectedClients, cfgVars, simVars, tripVars, txVars>>

\* acceptRide's callback when a publish of line 246 throws (kafka.js 95-108):
\* removeDriverLocation has run, executeTransaction rolls back and rethrows
acceptRideCallbackThrows(d) ==
  /\ acc[d].pc = "tx"
  /\ rowLock' = [rowLock EXCEPT ![acc[d].ride] = 0]
  /\ acc' = [acc EXCEPT ![d].pc = "release", ![d].res = "Error: publish failed"]
  /\ geo' = geo \ {d}
  /\ UNCHANGED <<rides, drivers, offers, trips, rideCache, distLock, lateWrites, fd, urs, cnl>>
  /\ UNCHANGED payVars
  /\ UNCHANGED <<tenant, sim, loc, due>>
  /\ UNCHANGED edgeVars

\* executeTransaction, lines 185-187: COMMIT succeeds and the UPDATEs of the
\* callback become visible
acceptRideCommitted(d) ==
  /\ acc[d].pc = "commit"
  /\ LET r == acc[d].ride
     IN /\ rides' = [rides EXCEPT ![r] = [status |-> "DRIVER_ASSIGNED", driver_id |-> d,
                                          version |-> rides[r].version + 1]]
        /\ drivers' = [drivers EXCEPT ![d].status = "busy"]
        /\ offers' = acceptRideOffers(d, r, acc[d].snap)
        /\ rowLock' = [rowLock EXCEPT ![r] = 0]
  /\ acc' = [acc EXCEPT ![d].pc = "release", ![d].res = "ok"]
  /\ UNCHANGED <<trips, rideCache, distLock, lateWrites, fd, urs, cnl>>
  /\ UNCHANGED payVars
  /\ UNCHANGED envVars
  /\ UNCHANGED edgeVars

\* executeTransaction, lines 188-201: COMMIT throws; ROLLBACK; a serialization
\* failure or a deadlock (40001, 40P01) runs the callback again while
\* attempts are left, any other error is rethrown
acceptRideRolledBack(d, retryable) ==
  /\ acc[d].pc = "commit"
  /\ rowLock' = [rowLock EXCEPT ![acc[d].ride] = 0]
  /\ acc' = IF retryable /\ acc[d].attempt < maxRetries
              THEN [acc EXCEPT ![d].pc = "lock", ![d].attempt = @ + 1]
              ELSE [acc EXCEPT ![d].pc = "release",
                               ![d].res = IF retryable THEN "40001" ELSE "Error: commit failed"]
  /\ UNCHANGED <<rides, drivers, offers, trips, rideCache, distLock, lateWrites, fd, urs, cnl>>
  /\ UNCHANGED payVars
  /\ UNCHANGED envVars
  /\ UNCHANGED edgeVars

\* a finally block that does not release
releaseLockSkipped(d) ==
  /\ acc[d].pc = "release"
  /\ acc' = [acc EXCEPT ![d].pc = "idle"]
  /\ UNCHANGED <<rides, drivers, offers, trips, rideCache, rowLock, distLock, lateWrites, fd, urs, cnl>>
  /\ UNCHANGED payVars
  /\ UNCHANGED envVars
  /\ UNCHANGED edgeVars

\* lockingService.releaseLock in acceptRide's finally block
releaseLock(d) ==
  /\ acc[d].pc = "release"
  /\ distLock' = [distLock EXCEPT ![acc[d].ride] = IF @ = d THEN 0 ELSE @]
  /\ acc' = [acc EXCEPT ![d].pc = "idle"]
  /\ UNCHANGED <<rides, drivers, offers, trips, rideCache, rowLock, lateWrites, fd, urs, cnl>>
  /\ UNCHANGED payVars
  /\ UNCHANGED envVars
  /\ UNCHANGED edgeVars

\* the value a withLock caller's lock carries
WithLockHolder(c) == MaxDrivers + c

\* withLock, lines 113-117: acquireLock; no lock is an Error thrown
withLock(c, r) ==
  /\ wl[c].pc = "idle"
  /\ IF distLock[r] = 0
       THEN /\ distLock' = [distLock EXCEPT ![r] = WithLockHolder(c)]
            /\ wl' = [wl EXCEPT ![c] = [pc |-> "fn", resource |-> r, res |-> "none"]]
       ELSE /\ wl' = [wl EXCEPT ![c] = [pc |-> "idle", resource |-> r,
                                        res |-> "Could not acquire lock"]]
            /\ UNCHANGED distLock
  /\ UNCHANGED <<rides, drivers, offers, trips, rideCache, rowLock, lateWrites, fd, acc, urs, cnl>>
  /\ UNCHANGED <<payVars, envVars, mwVars, fareVars, sockVars, cfgVars, simVars, tripVars, txVars>>

\* withLock, lines 119-120: fn() returns or throws
withLockFn(c, threw) ==
  /\ wl[c].pc = "fn"
  /\ wl' = [wl EXCEPT ![c].pc = "finally", ![c].res = IF threw THEN "threw" ELSE "ok"]
  /\ UNCHANGED <<rideVars, payVars, envVars, mwVars, fareVars, sockVars, cfgVars, simVars, tripVars, txVars>>

\* withLock, lines 121-123: finally releaseLock(lock), then the result or the
\* error goes to the caller
withLockFinally(c) ==
  /\ wl[c].pc = "finally"
  /\ distLock' = [distLock EXCEPT ![wl[c].resource] = IF @ = WithLockHolder(c) THEN 0 ELSE @]
  /\ wl' = [wl EXCEPT ![c].pc = "idle"]
  /\ UNCHANGED <<rides, drivers, offers, trips, rideCache, rowLock, lateWrites, fd, acc, urs, cnl>>
  /\ UNCHANGED <<payVars, envVars, mwVars, fareVars, sockVars, cfgVars, simVars, tripVars, txVars>>

\* a ride_offers row an open acceptRide transaction has written and still locks
OfferLocked(i) ==
  \E d \in Drivers : /\ acc[d].pc = "tx"
                     /\ i <= acc[d].snap
                     /\ offers[i].ride_id = acc[d].ride
                     /\ (offers[i].driver_id = d \/ offers[i].status = "pending")

\* declineRide: UPDATE ride_offers SET status = 'declined' WHERE ride_id AND
\* driver_id AND status = 'pending'; no row is NotFoundError
declineRide(r, d) ==
  /\ HasPendingOffer(r, d)
  /\ \A i \in OfferIdx : offers[i].ride_id = r /\ offers[i].driver_id = d => ~OfferLocked(i)
  /\ offers' = [i \in OfferIdx |->
                  IF offers[i].ride_id = r /\ offers[i].driver_id = d /\ offers[i].status = "pending"
                    THEN [offers[i] EXCEPT !.status = "declined"] ELSE offers[i]]
  /\ UNCHANGED <<rides, drivers, trips, rideCache, rowLock, distLock, lateWrites, fd, acc, urs, cnl>>
  /\ UNCHANGED payVars
  /\ UNCHANGED envVars
  /\ UNCHANGED edgeVars

\* OFFER_EXPIRY_MS after createRideOffer, the offer's expires_at has passed
offerExpiresAtPasses(i) ==
  /\ i \in OfferIdx
  /\ i \notin due
  /\ due' = due \cup {i}
  /\ UNCHANGED <<tenant, geo, sim, loc>>
  /\ UNCHANGED rideVars
  /\ UNCHANGED payVars
  /\ UNCHANGED edgeVars

\* expirePendingOffers: UPDATE ride_offers SET status = 'expired' WHERE
\* status = 'pending' AND expires_at < NOW()
expirePendingOffers ==
  /\ \A i \in OfferIdx : ~OfferLocked(i)
  /\ offers' = [i \in OfferIdx |->
                  IF offers[i].status = "pending" /\ i \in due
                    THEN [offers[i] EXCEPT !.status = "expired"] ELSE offers[i]]
  /\ UNCHANGED <<rides, drivers, trips, rideCache, rowLock, distLock, lateWrites, fd, acc, urs, cnl>>
  /\ UNCHANGED payVars
  /\ UNCHANGED envVars
  /\ UNCHANGED edgeVars

\* ------------------------------------------------------------ tripService
\* updateRideStatusForTrip: newStatus must be DRIVER_EN_ROUTE or
\* DRIVER_ARRIVED; UPDATE rides SET status = $1, version = version + 1
\* WHERE id = $2
updateRideStatusForTrip(r, newStatus) ==
  /\ newStatus \in validStatuses
  /\ rides[r].status # "NONE"
  /\ rowLock[r] = 0
  /\ rides[r].version < MaxVersion
  /\ rides' = [rides EXCEPT ![r].status = newStatus, ![r].version = rides[r].version + 1]
  /\ rideCache' = [rideCache EXCEPT ![r] = "NONE"]
  /\ UNCHANGED <<drivers, offers, trips, rowLock, distLock, lateWrites, fd, acc, urs, cnl>>
  /\ UNCHANGED payVars
  /\ UNCHANGED envVars
  /\ UNCHANGED edgeVars

\* startTrip: one transaction; SELECT ride FOR UPDATE, require DRIVER_ARRIVED,
\* INSERT INTO trips (... 'IN_PROGRESS'), ride to IN_PROGRESS, version + 1;
\* switchToTripPhase starts the simulation towards the dropoff
startTrip(r) ==
  /\ rides[r].status = "DRIVER_ARRIVED"
  /\ rowLock[r] = 0
  /\ rides[r].version < MaxVersion
  /\ Len(trips) < MaxTrips
  /\ trips' = Append(trips, [ride_id |-> r, status |-> "IN_PROGRESS"])
  /\ rides' = [rides EXCEPT ![r].status = "IN_PROGRESS", ![r].version = rides[r].version + 1]
  /\ rideCache' = [rideCache EXCEPT ![r] = "NONE"]
  /\ sim' = sim \cup {rides[r].driver_id}
  /\ UNCHANGED <<drivers, offers, rowLock, distLock, lateWrites, fd, acc, urs, cnl>>
  /\ UNCHANGED payVars
  /\ UNCHANGED <<tenant, geo, loc, due>>
  /\ UNCHANGED edgeVars

\* endTrip: one transaction; SELECT trip FOR UPDATE, require trip IN_PROGRESS,
\* SELECT ride FOR UPDATE, trip to COMPLETED, ride to COMPLETED with
\* version + 1, the ride's driver to online and, with a last known location,
\* back into the geo index; stopDriverSimulation
endTrip(t) ==
  /\ t \in TripIdx
  /\ trips[t].status = "IN_PROGRESS"
  /\ tripLock[t] = 0
  /\ LET r == trips[t].ride_id
         d == rides[r].driver_id
     IN /\ rowLock[r] = 0
        /\ rides[r].version < MaxVersion
        /\ d # NoDriver => acc[d].pc # "tx"
        /\ trips' = [trips EXCEPT ![t].status = "COMPLETED"]
        /\ rides' = [rides EXCEPT ![r].status = "COMPLETED", ![r].version = rides[r].version + 1]
        /\ drivers' = IF d # NoDriver THEN [drivers EXCEPT ![d].status = "online"] ELSE drivers
        /\ total_rides' = IF d # NoDriver
                            THEN [total_rides EXCEPT ![d] = total_rides[d] + 1]
                            ELSE total_rides
        /\ rideCache' = [rideCache EXCEPT ![r] = "NONE"]
        /\ geo' = IF d \in loc THEN geo \cup {d} ELSE geo
        /\ sim' = sim \ {d}
  /\ UNCHANGED <<offers, rowLock, distLock, lateWrites, fd, acc, urs, cnl>>
  /\ UNCHANGED payVars
  /\ UNCHANGED <<tenant, loc, due>>
  /\ UNCHANGED <<mwVars, lockVars, fareVars, sockVars, cfgVars, simVars, et, tripLock, txVars>>

\* endTrip without the check of trip.status
endTripCheckSkipped(t) ==
  IF t \notin TripIdx THEN "NotFound" ELSE "ok"

\* endTrip's checks on the row that SELECT ... FOR UPDATE returned
endTripCheck(t) ==
  IF t \notin TripIdx THEN "NotFound"
  ELSE IF trips[t].status # "IN_PROGRESS" THEN "InvalidStateTransition"
  ELSE "ok"

EndTripUnchanged ==
  UNCHANGED <<payVars, tenant, loc, due, mwVars, lockVars, fareVars, sockVars, cfgVars, simVars, txVars>>

\* endTrip of caller c, up to its checks: SELECT * FROM trips WHERE id = $1
\* FOR UPDATE waits while another transaction holds the row, then reads the
\* committed row; a failed check throws and the transaction rolls back
endTripSelect(c, t) ==
  /\ et[c].pc = "idle"
  /\ t \in TripIds
  /\ tripLock[t] = 0
  /\ LET res == endTripCheck(t)
     IN IF res = "ok"
          THEN /\ tripLock' = [tripLock EXCEPT ![t] = c]
               /\ et' = [et EXCEPT ![c] = [pc |-> "tx", trip |-> t, res |-> "none"]]
          ELSE /\ et' = [et EXCEPT ![c] = [pc |-> "idle", trip |-> t, res |-> res]]
               /\ UNCHANGED tripLock
  /\ UNCHANGED <<rides, drivers, offers, trips, rideCache, rowLock, distLock, lateWrites, fd, acc, urs, cnl>>
  /\ UNCHANGED <<geo, sim, total_rides>>
  /\ EndTripUnchanged

\* the rest of endTrip's transaction and its COMMIT
endTripCommit(c) ==
  /\ et[c].pc = "tx"
  /\ LET t == et[c].trip
         r == trips[t].ride_id
         d == rides[r].driver_id
     IN /\ rowLock[r] = 0
        /\ rides[r].version < MaxVersion
        /\ d # NoDriver => acc[d].pc # "tx"
        /\ trips' = [trips EXCEPT ![t].status = "COMPLETED"]
        /\ rides' = [rides EXCEPT ![r].status = "COMPLETED", ![r].version = rides[r].version + 1]
        /\ drivers' = IF d # NoDriver THEN [drivers EXCEPT ![d].status = "online"] ELSE drivers
        /\ total_rides' = IF d # NoDriver
                            THEN [total_rides EXCEPT ![d] = total_rides[d] + 1]
                            ELSE total_rides
        /\ rideCache' = [rideCache EXCEPT ![r] = "NONE"]
        /\ geo' = IF d \in loc THEN geo \cup {d} ELSE geo
        /\ sim' = sim \ {d}
        /\ tripLock' = [tripLock EXCEPT ![t] = 0]
  /\ et' = [et EXCEPT ![c].pc = "idle", ![c].res = "ok"]
  /\ UNCHANGED <<offers, rowLock, distLock, lateWrites, fd, acc, urs, cnl>>
  /\ EndTripUnchanged

\* a query or a publish of the callback throws: ROLLBACK, the error is rethrown
endTripRolledBack(c) ==
  /\ et[c].pc = "tx"
  /\ tripLock' = [tripLock EXCEPT ![et[c].trip] = 0]
  /\ et' = [et EXCEPT ![c].pc = "idle", ![c].res = "error"]
  /\ UNCHANGED <<rides, drivers, offers, trips, rideCache, rowLock, distLock, lateWrites, fd, acc, urs, cnl>>
  /\ UNCHANGED <<geo, sim, total_rides>>
  /\ EndTripUnchanged

\* ---------------------------------------------------------- driverService
\* updateDriverStatus: UPDATE drivers SET status = $1 WHERE id = $2, for any
\* of online, offline, busy; online puts the driver's last known location
\* into the geo index, offline and busy take the driver out of it
updateDriverStatus(d, status) ==
  /\ status \in DriverStatuses
  /\ acc[d].pc # "tx"
  /\ drivers[d].status # status
  /\ drivers' = [drivers EXCEPT ![d].status = status]
  /\ geo' = IF status = "online" THEN (IF d \in loc THEN geo \cup {d} ELSE geo)
             ELSE geo \ {d}
  /\ UNCHANGED <<rides, offers, trips, rideCache, rowLock, distLock, lateWrites, fd, acc, urs, cnl>>
  /\ UNCHANGED payVars
  /\ UNCHANGED <<tenant, sim, loc, due>>
  /\ UNCHANGED edgeVars

\* ------------------------------------------------------ simulationService
\* updateDriverPosition, one tick of a running simulation: within 50 m of the
\* destination (arrived, decided by the positions) stopDriverSimulation;
\* otherwise the new position goes into the geo index and driver_locations
updateDriverPosition(d, arrived) ==
  /\ d \in sim
  /\ IF arrived
       THEN /\ sim' = sim \ {d}
            /\ UNCHANGED <<geo, loc>>
       ELSE /\ geo' = geo \cup {d}
            /\ loc' = loc \cup {d}
            /\ UNCHANGED sim
  /\ UNCHANGED <<tenant, due>>
  /\ UNCHANGED rideVars
  /\ UNCHANGED payVars
  /\ UNCHANGED edgeVars

\* --------------------------------------------------------- paymentService
\* a call returns r: the caller is idle again; the first Payment answered for
\* an idempotency key is remembered
Return(p, r) ==
  /\ pay' = [pay EXCEPT ![p] = IdlePay]
  /\ ret' = IF pay[p].key # 0 /\ r.status \in PaymentStatuses /\ ret[pay[p].key] = NoPayment
              THEN [ret EXCEPT ![pay[p].key] = r]
              ELSE ret

\* a payments row an open processPayment transaction has written and locks
PaymentLocked(i) ==
  \E p \in Callers : pay[p].pc \in {"psp", "commit"} /\ pay[p].txid = i

\* processPayment is called
processPayment(p, tripId, paymentMethod, idempotencyKey) ==
  /\ pay[p].pc = "idle"
  /\ pay' = [pay EXCEPT ![p] = [IdlePay EXCEPT !.pc = "check", !.key = idempotencyKey,
                                               !.trip = tripId, !.method = paymentMethod,
                                               !.prior = ret[idempotencyKey]]]
  /\ UNCHANGED <<payments, idem, payLock, psp, ret>>
  /\ UNCHANGED rideVars
  /\ UNCHANGED envVars
  /\ UNCHANGED edgeVars

\* checkIdempotencyKey, lines 332-340: the stored Payment, or null when there
\* is none or Redis fails
CachedPayment(key) == IF off = "cache" THEN NoPayment ELSE idem[key]

\* processPayment, line 33: a stored result for the key is returned as it is
checkIdempotencyKey(p) ==
  /\ pay[p].pc = "check"
  /\ IF CachedPayment(pay[p].key) # NoPayment
       THEN Return(p, CachedPayment(pay[p].key))
       ELSE /\ pay' = [pay EXCEPT ![p].pc = "lock"]
            /\ UNCHANGED ret
  /\ UNCHANGED <<payments, idem, payLock, psp>>
  /\ UNCHANGED rideVars
  /\ UNCHANGED envVars
  /\ UNCHANGED edgeVars

\* processPayment, line 41: SET payment_lock:<tripId> <value> PX 30000 NX
acquirePaymentLock(p) ==
  /\ pay[p].pc = "lock"
  /\ IF payLock[pay[p].trip] = 0 \/ off = "lock"
       THEN /\ payLock' = [payLock EXCEPT ![pay[p].trip] = p]
            /\ pay' = [pay EXCEPT ![p].pc = "tx"]
       ELSE /\ pay' = [pay EXCEPT ![p].pc = "recheck"]
            /\ UNCHANGED payLock
  /\ UNCHANGED <<payments, idem, psp, ret>>
  /\ UNCHANGED rideVars
  /\ UNCHANGED envVars
  /\ UNCHANGED edgeVars

\* processPayment, lines 46-50: 100 ms later the key is looked up once more;
\* still nothing stored is ConflictError
recheckIdempotencyKey(p) ==
  /\ pay[p].pc = "recheck"
  /\ IF CachedPayment(pay[p].key) # NoPayment
       THEN Return(p, CachedPayment(pay[p].key))
       ELSE Return(p, Thrown("ConflictError"))
  /\ UNCHANGED <<payments, idem, payLock, psp>>
  /\ UNCHANGED rideVars
  /\ UNCHANGED envVars
  /\ UNCHANGED edgeVars

\* the payments row of the trip, as SELECT * FROM payments WHERE trip_id finds it
ExistingPayment(tripId) ==
  IF \E i \in PaymentIdx : payments[i].trip_id = tripId
    THEN payments[CHOOSE i \in PaymentIdx : /\ payments[i].trip_id = tripId
                                            /\ \A j \in PaymentIdx : payments[j].trip_id = tripId => i <= j]
    ELSE NoPayment

\* the transaction callback of processPayment up to the PSP call (lines 55-104):
\* a completed payment of the trip is returned as it is; the trip must exist
\* and be COMPLETED; the row is set to processing under the call's key, or
\* inserted; idempotency_key is UNIQUE. The transactions are SERIALIZABLE: one
\* that meets the uncommitted row of another on the same trip waits for it
\* and then works on what was committed
processPaymentTx(p) ==
  /\ pay[p].pc = "tx"
  /\ \A q \in Callers \ {p} : ~(pay[q].pc \in {"psp", "commit"} /\ pay[q].trip = pay[p].trip)
  /\ LET t == pay[p].trip
         k == pay[p].key
         existing == ExistingPayment(t)
         started == [pay[p] EXCEPT !.attempt = pay[p].attempt + 1]
     IN IF existing.status = "completed"
          THEN pay' = [pay EXCEPT ![p] = [started EXCEPT !.pc = "commit", !.txrow = existing, !.txid = 0]]
        ELSE IF t \notin TripIdx
          THEN pay' = [pay EXCEPT ![p] = [started EXCEPT !.pc = "release", !.resp = Thrown("NotFoundError")]]
        ELSE IF trips[t].status # "COMPLETED"
          THEN pay' = [pay EXCEPT ![p] = [started EXCEPT !.pc = "release", !.resp = Thrown("ConflictError")]]
        ELSE IF off # "unique" /\ \E j \in PaymentIdx : payments[j].key = k /\ j # existing.id
          THEN pay' = [pay EXCEPT ![p] = [started EXCEPT !.pc = "release", !.resp = Thrown("UniqueViolation")]]
        ELSE IF existing # NoPayment
          THEN pay' = [pay EXCEPT ![p] = [started EXCEPT !.pc = "psp", !.txid = existing.id,
                         !.txrow = [existing EXCEPT !.status = "processing", !.key = k]]]
        ELSE pay' = [pay EXCEPT ![p] = [started EXCEPT !.pc = "psp", !.txid = Len(payments) + 1,
                         !.txrow = [id |-> Len(payments) + 1, trip_id |-> t, method |-> pay[p].method,
                                    status |-> "processing", key |-> k, ref |-> 0]]]
  /\ UNCHANGED <<payments, idem, payLock, psp, ret>>
  /\ UNCHANGED rideVars
  /\ UNCHANGED envVars
  /\ UNCHANGED edgeVars

\* what the mock PSP can answer: cash and wallet complete, a card may be declined
PspOutcomes(paymentMethod) ==
  IF paymentMethod = "card" THEN {"completed", "failed"} ELSE {"completed"}

\* publishNotification(trip.rider_id, 'PAYMENT_COMPLETED', ...) and
\* publishNotification(trip.driver_id, 'PAYMENT_RECEIVED', ...) for a payment
PaymentNotifications(payment) ==
  LET r == trips[payment.trip_id].ride_id
      d == rides[r].driver_id
  IN {Notification(Rider, "PAYMENT_COMPLETED", r, d, payment.id),
      Notification(d, "PAYMENT_RECEIVED", r, d, payment.id)}

\* lines 107-164 of the callback: the PSP is called, the row takes the PSP's
\* status and reference, and storeIdempotencyResult writes the row under the
\* key, all before the transaction commits
processPaymentPsp(p, outcome) ==
  /\ pay[p].pc = "psp"
  /\ outcome \in PspOutcomes(pay[p].method)
  /\ psp.calls < MaxPsp
  /\ LET ref == IF outcome = "completed" THEN psp.calls + 1 ELSE 0
         payment == [pay[p].txrow EXCEPT !.status = outcome, !.ref = ref]
     IN /\ psp' = [calls |-> psp.calls + 1,
                   completed |-> psp.completed + (IF outcome = "completed" THEN 1 ELSE 0)]
        /\ idem' = IF off = "cache" THEN idem ELSE [idem EXCEPT ![pay[p].key] = payment]
        /\ pay' = [pay EXCEPT ![p].pc = "commit", ![p].txrow = payment, ![p].charged = TRUE]
        /\ topic' = IF outcome = "completed"
                      THEN topic \cup PaymentNotifications(payment)
                      ELSE topic
  /\ UNCHANGED <<payments, payLock, ret>>
  /\ UNCHANGED rideVars
  /\ UNCHANGED envVars
  /\ UNCHANGED <<mwVars, lockVars, fareVars, sock, connectedClients, cfgVars, simVars, tripVars, txVars>>

\* executeTransaction: COMMIT; the callback's result is the call's result
executeTransactionCommit(p) ==
  /\ pay[p].pc = "commit"
  /\ payments' = IF pay[p].txid = 0 THEN payments
                 ELSE IF pay[p].txid > Len(payments) THEN Append(payments, pay[p].txrow)
                 ELSE [payments EXCEPT ![pay[p].txid] = pay[p].txrow]
  /\ pay' = [pay EXCEPT ![p].pc = "release", ![p].resp = pay[p].txrow]
  /\ UNCHANGED <<idem, payLock, psp, ret>>
  /\ UNCHANGED rideVars
  /\ UNCHANGED envVars
  /\ UNCHANGED edgeVars

\* executeTransaction: the SERIALIZABLE transaction fails with 40001; ROLLBACK,
\* then the callback runs again while attempt < maxRetries, else the error is
\* thrown
executeTransactionRetry(p) ==
  /\ pay[p].pc = "commit"
  /\ pay[p].txid # 0
  /\ IF pay[p].attempt < maxRetries
       THEN pay' = [pay EXCEPT ![p].pc = "tx", ![p].txrow = NoPayment, ![p].txid = 0]
       ELSE pay' = [pay EXCEPT ![p].pc = "release", ![p].txrow = NoPayment, ![p].txid = 0,
                               ![p].resp = Thrown("SerializationFailure")]
  /\ UNCHANGED <<payments, idem, payLock, psp, ret>>
  /\ UNCHANGED rideVars
  /\ UNCHANGED envVars
  /\ UNCHANGED edgeVars

\* processPayment's finally block: the lock is deleted when it still holds the
\* caller's value; then the call returns or throws
releasePaymentLock(p) ==
  /\ pay[p].pc = "release"
  /\ payLock' = [payLock EXCEPT ![pay[p].trip] = IF @ = p THEN 0 ELSE @]
  /\ Return(p, pay[p].resp)
  /\ UNCHANGED <<payments, idem, psp>>
  /\ UNCHANGED rideVars
  /\ UNCHANGED envVars
  /\ UNCHANGED edgeVars

\* processPayment's finally block, line 175: GET payment_lock:<tripId>
releasePaymentLockGet(p) ==
  /\ pay[p].pc = "release"
  /\ pay' = [pay EXCEPT ![p].pc = "del", ![p].lockRead = payLock[pay[p].trip]]
  /\ UNCHANGED <<payments, idem, payLock, psp, ret>>
  /\ UNCHANGED rideVars
  /\ UNCHANGED envVars
  /\ UNCHANGED edgeVars

\* processPayment's finally block, lines 176-178: DEL payment_lock:<tripId>
\* when the value read was the caller's; then the call returns or throws
releasePaymentLockDel(p) ==
  /\ pay[p].pc = "del"
  /\ payLock' = IF pay[p].lockRead = p THEN [payLock EXCEPT ![pay[p].trip] = 0] ELSE payLock
  /\ Return(p, pay[p].resp)
  /\ UNCHANGED <<payments, idem, psp>>
  /\ UNCHANGED rideVars
  /\ UNCHANGED envVars
  /\ UNCHANGED edgeVars

\* PAYMENT_LOCK_TTL: the key set with PX 30000 expires
paymentLockExpires(t) ==
  /\ payLock[t] # 0
  /\ payLock' = [payLock EXCEPT ![t] = 0]
  /\ UNCHANGED <<payments, idem, psp, pay, ret>>
  /\ UNCHANGED rideVars
  /\ UNCHANGED envVars
  /\ UNCHANGED edgeVars

\* retryPayment, lines 284-288: getPaymentById, only a failed payment goes on
retryPayment(p, paymentId, idempotencyKey) ==
  /\ pay[p].pc = "idle"
  /\ paymentId \in PaymentIdx
  /\ IF payments[paymentId].status # "failed"
       THEN pay' = [pay EXCEPT ![p] = IdlePay]
       ELSE pay' = [pay EXCEPT ![p] = [IdlePay EXCEPT !.pc = "retryUpdate", !.id = paymentId,
                                          !.key = idempotencyKey,
                                          !.trip = payments[paymentId].trip_id,
                                          !.method = payments[paymentId].method]]
  /\ UNCHANGED <<payments, idem, payLock, psp, ret>>
  /\ UNCHANGED rideVars
  /\ UNCHANGED envVars
  /\ UNCHANGED edgeVars

\* retryPayment, lines 290-295: UPDATE payments SET status = 'pending' WHERE id,
\* then processPayment(payment.trip_id, payment.payment_method, idempotencyKey)
retryPaymentUpdate(p) ==
  /\ pay[p].pc = "retryUpdate"
  /\ ~PaymentLocked(pay[p].id)
  /\ payments' = [payments EXCEPT ![pay[p].id].status = "pending"]
  /\ pay' = [pay EXCEPT ![p].pc = "check", ![p].prior = ret[pay[p].key]]
  /\ UNCHANGED <<idem, payLock, psp, ret>>
  /\ UNCHANGED rideVars
  /\ UNCHANGED envVars
  /\ UNCHANGED edgeVars

\* initiateRefund, lines 302-312: getPaymentById, only a completed payment that
\* was not paid in cash goes on
initiateRefund(p, paymentId) ==
  /\ pay[p].pc = "idle"
  /\ paymentId \in PaymentIdx
  /\ IF payments[paymentId].status # "completed" \/ payments[paymentId].method = "cash"
       THEN pay' = [pay EXCEPT ![p] = IdlePay]
       ELSE pay' = [pay EXCEPT ![p] = [IdlePay EXCEPT !.pc = "refundUpdate", !.id = paymentId]]
  /\ UNCHANGED <<payments, idem, payLock, psp, ret>>
  /\ UNCHANGED rideVars
  /\ UNCHANGED envVars
  /\ UNCHANGED edgeVars

\* initiateRefund, lines 314-327: UPDATE payments SET status = 'refunded'
\* WHERE id RETURNING *
initiateRefundUpdate(p) ==
  /\ pay[p].pc = "refundUpdate"
  /\ ~PaymentLocked(pay[p].id)
  /\ payments' = [payments EXCEPT ![pay[p].id].status = "refunded"]
  /\ Return(p, [payments[pay[p].id] EXCEPT !.status = "refunded"])
  /\ UNCHANGED <<idem, payLock, psp>>
  /\ UNCHANGED rideVars
  /\ UNCHANGED envVars
  /\ UNCHANGED edgeVars

\* ------------------------------------------------ executeTransaction itself
\* options.retryDelay of executeTransaction, in ms
retryDelay == 100

\* what an attempt ends with: COMMIT, or an error with its code
TxOutcomes == {"ok", "40001", "40P01", "other"}

TxUnchanged == UNCHANGED <<rideVars, payVars, envVars, mwVars, lockVars, fareVars, sockVars, cfgVars, simVars, tripVars>>

\* for (attempt = 1; attempt <= maxRetries; attempt++) { client = await
\* pool.connect(); BEGIN: the first attempt of a call, or the next one
executeTransactionConnect(c) ==
  /\ xt[c].pc \in {"idle", "next"}
  /\ xt[c].attempt + 1 <= maxRetries
  /\ xt' = [xt EXCEPT ![c].pc = "callback", ![c].attempt = @ + 1, ![c].client = TRUE,
                       ![c].again = FALSE]
  /\ TxUnchanged

\* the callback and COMMIT, or the catch block: ROLLBACK, then either the
\* backoff of retryDelay * attempt and continue, or throw
executeTransactionAttempt(c, outcome) ==
  /\ xt[c].pc = "callback"
  /\ IF outcome = "ok"
       THEN xt' = [xt EXCEPT ![c].pc = "finally", ![c].res = "ok"]
       ELSE LET isRetryable == outcome \in {"40001", "40P01"}
            IN IF isRetryable /\ xt[c].attempt < maxRetries
                 THEN xt' = [xt EXCEPT ![c].pc = "finally",
                                       ![c].rolledBack = @ + 1,
                                       ![c].errors = Append(@, outcome),
                                       ![c].waits = Append(@, retryDelay * xt[c].attempt),
                                       ![c].again = TRUE]
                 ELSE xt' = [xt EXCEPT ![c].pc = "finally",
                                       ![c].rolledBack = @ + 1,
                                       ![c].errors = Append(@, outcome),
                                       ![c].res = "thrown"]
  /\ TxUnchanged

\* finally { client.release() }, then the next turn of the loop or the end of
\* the call
executeTransactionFinally(c) ==
  /\ xt[c].pc = "finally"
  /\ xt' = [xt EXCEPT ![c].client = FALSE,
                       ![c].pc = IF xt[c].again THEN "next" ELSE "done"]
  /\ TxUnchanged

NextTx ==
  \/ \E c \in Callers : executeTransactionConnect(c)
  \/ \E c \in Callers, outcome \in TxOutcomes : executeTransactionAttempt(c, outcome)
  \/ \E c \in Callers : executeTransactionFinally(c)

SpecTx == Init /\ [][NextTx]_vars

\* ------------------------------------------------------- simulation timers
SimUnchanged ==
  UNCHANGED <<rideVars, payVars, envVars, mwVars, lockVars, fareVars, sockVars, cfgVars, tripVars, txVars>>

\* the intervals and the map after stopDriverSimulation(driverId), lines
\* 529-536: the interval registered for the driver is cleared and the entry
\* deleted
Stopped(driverId) ==
  [intervals |-> {i \in intervals : i.id # activeSimulations[driverId]},
   activeSimulations |-> [activeSimulations EXCEPT ![driverId] = 0]]

\* stopDriverSimulation
stopDriverSimulation(driverId) ==
  /\ activeSimulations[driverId] # 0
  /\ intervals' = Stopped(driverId).intervals
  /\ activeSimulations' = Stopped(driverId).activeSimulations
  /\ UNCHANGED <<simCall, created>>
  /\ SimUnchanged

\* startDriverSimulation, lines 339-347: stopDriverSimulation(driverId), then
\* the call waits for its two queries
startDriverSimulation(c, driverId, phase) ==
  /\ simCall[c].pc = "idle"
  /\ created < MaxIntervals
  /\ intervals' = Stopped(driverId).intervals
  /\ activeSimulations' = Stopped(driverId).activeSimulations
  /\ simCall' = [simCall EXCEPT ![c] = [pc |-> "await", driverId |-> driverId, phase |-> phase]]
  /\ UNCHANGED created
  /\ SimUnchanged

\* startDriverSimulation, lines 349-352 and 413-423: no ride row, no
\* simulation; otherwise setInterval, then activeSimulations.set(driverId,
\* simulation)
startDriverSimulationSet(c, rideFound) ==
  /\ simCall[c].pc = "await"
  /\ IF rideFound
       THEN /\ intervals' = intervals \cup {[id |-> created + 1, driverId |-> simCall[c].driverId,
                                              phase |-> simCall[c].phase]}
            /\ activeSimulations' = [activeSimulations EXCEPT ![simCall[c].driverId] = created + 1]
            /\ created' = created + 1
       ELSE UNCHANGED <<intervals, activeSimulations, created>>
  /\ simCall' = [simCall EXCEPT ![c] = IdleSimCall]
  /\ SimUnchanged

\* switchToTripPhase: startDriverSimulation(rideId, driverId, riderId, 'TO_DROPOFF')
switchToTripPhase(c, driverId) ==
  startDriverSimulation(c, driverId, "TO_DROPOFF")

\* an interval fires and the driver has arrived (updateDriverPosition, lines
\* 447-452): stopDriverSimulation(driverId)
intervalArrived(i) ==
  /\ i \in intervals
  /\ intervals' = Stopped(i.driverId).intervals
  /\ activeSimulations' = Stopped(i.driverId).activeSimulations
  /\ UNCHANGED <<simCall, created>>
  /\ SimUnchanged

\* ----------------------------------------------------------------- sockets
SockUnchanged == UNCHANGED <<rideVars, payVars, envVars, mwVars, lockVars, fareVars, cfgVars, simVars, tripVars, txVars>>

\* io.on('connection')
connection(s) ==
  /\ ~sock[s].connected
  /\ sock' = [sock EXCEPT ![s] = [NoSocket EXCEPT !.connected = TRUE]]
  /\ UNCHANGED <<connectedClients, topic>>
  /\ SockUnchanged

\* socket.on('register'): no userId, no effect; otherwise the socket is stored
\* under the user, joins user:<userId> and type:<userType>, and is sent
\* 'registered'
register(s, userId, userType) ==
  /\ sock[s].connected
  /\ userId # 0
  /\ connectedClients' = [connectedClients EXCEPT ![userId] = @ \cup {s}]
  /\ sock' = [sock EXCEPT ![s].userId = userId, ![s].userType = userType,
                          ![s].rooms = @ \cup {Room("user", userId), TypeRoom(userType)},
                          ![s].received = @ \cup {[event |-> "registered", userId |-> userId,
                                                   ride_id |-> 0]}]
  /\ UNCHANGED topic
  /\ SockUnchanged

\* socket.on('subscribe:ride')
subscribeRide(s, rideId) ==
  /\ sock[s].connected
  /\ Room("ride", rideId) \notin sock[s].rooms
  /\ sock' = [sock EXCEPT ![s].rooms = @ \cup {Room("ride", rideId)}]
  /\ UNCHANGED <<connectedClients, topic>>
  /\ SockUnchanged

\* socket.on('unsubscribe:ride')
unsubscribeRide(s, rideId) ==
  /\ sock[s].connected
  /\ Room("ride", rideId) \in sock[s].rooms
  /\ sock' = [sock EXCEPT ![s].rooms = @ \ {Room("ride", rideId)}]
  /\ UNCHANGED <<connectedClients, topic>>
  /\ SockUnchanged

\* socket.on('disconnect'): the socket leaves its rooms and is taken out of
\* the set of its current userId
disconnect(s) ==
  /\ sock[s].connected
  /\ sock' = [sock EXCEPT ![s] = NoSocket]
  /\ connectedClients' =
       IF sock[s].userId # 0
         THEN [connectedClients EXCEPT ![sock[s].userId] = @ \ {s}]
         ELSE connectedClients
  /\ UNCHANGED topic
  /\ SockUnchanged

eventMap(type) ==
  CASE type = "RIDE_OFFER" -> "ride:offer"
    [] type = "DRIVER_ASSIGNED" -> "ride:driver_assigned"
    [] OTHER -> "notification"

\* the sockets in a room
InRoom(room) == {s \in Sockets : room \in sock[s].rooms}

\* handleNotification: sendToUser(userId, event, payload), and, payload.ride_id
\* being present, sendToRide(payload.ride_id, event, payload)
handleNotification(message) ==
  /\ message \in topic
  /\ topic' = topic \ {message}
  /\ LET to == InRoom(Room("user", message.userId))
                 \cup (IF message.ride_id # 0 THEN InRoom(Room("ride", message.ride_id))
                       ELSE {})
     IN  sock' = [s \in Sockets |->
                    IF s \in to
                      THEN [sock[s] EXCEPT !.received =
                              @ \cup {[event |-> eventMap(message.type),
                                       userId |-> message.userId,
                                       ride_id |-> message.ride_id]}]
                      ELSE sock[s]]
  /\ UNCHANGED connectedClients
  /\ SockUnchanged

\* ------------------------------------------------------------------- fares
\* Amounts are in hundredths: rupees in paise, kilometres and minutes in
\* hundredths, the surge multiplier in hundredths (100 is 1.0). perMin is kept
\* in tenths of a rupee (1.5 is 15).
FARE_CONFIG ==
  [economy |-> [baseFare |-> 5000, perKm |-> 12, perMin |-> 15],
   premium |-> [baseFare |-> 10000, perKm |-> 18, perMin |-> 25],
   xl      |-> [baseFare |-> 15000, perKm |-> 22, perMin |-> 30]]

Tiers == {"economy", "premium", "xl", "unknown"}

DistancesKm == {137 * k : k \in 0..MaxFareGrid}

DurationsMins == {35 * k : k \in 0..MaxFareGrid}

SurgeMultipliers == {100 + 25 * k : k \in 0..MaxFareGrid}

\* Math.round(n / k * 100) / 100 for the exact quotient n / k of hundredths:
\* the nearest hundredth. The operands are doubles, so a quotient that lies
\* exactly half way is computed a little below or a little above the half
\* (30 * 1.5 is exact, 0.35 * 1.5 * 100 is 52.49999999999999) and either
\* neighbour can come out.
MathRound(n, k) ==
  IF 2 * (n % k) = k THEN {n \div k, (n \div k) + 1}
  ELSE IF 2 * (n % k) < k THEN {n \div k}
  ELSE {(n \div k) + 1}

\* taxes on the subtotal alone
calculateFareTaxOnSubtotal(tier, distanceKm, durationMins, surgeMultiplier) ==
  LET config == IF tier \in DOMAIN FARE_CONFIG THEN FARE_CONFIG[tier] ELSE FARE_CONFIG.economy
      baseFare == config.baseFare
      Surge(subtotal) ==
        IF surgeMultiplier > 100
          THEN MathRound(subtotal * (surgeMultiplier - 100), 100)
          ELSE {0}
  IN  UNION { UNION { UNION { {
        [baseFare |-> baseFare, distanceFare |-> distanceFare, timeFare |-> timeFare,
         surgeFare |-> surgeFare, surgeMultiplier |-> surgeMultiplier, taxes |-> taxes,
         subtotal |-> baseFare + distanceFare + timeFare,
         total |-> baseFare + distanceFare + timeFare + surgeFare + taxes] :
          taxes \in MathRound((baseFare + distanceFare + timeFare) * 5, 100) } :
          surgeFare \in Surge(baseFare + distanceFare + timeFare) } :
          timeFare \in MathRound(durationMins * config.perMin, 10) } :
          distanceFare \in MathRound(distanceKm * config.perKm, 1) }

\* tripService.calculateFare: the breakdowns the call can return
calculateFare(tier, distanceKm, durationMins, surgeMultiplier) ==
  LET config == IF tier \in DOMAIN FARE_CONFIG THEN FARE_CONFIG[tier] ELSE FARE_CONFIG.economy
      baseFare == config.baseFare
      Surge(subtotal) ==
        IF surgeMultiplier > 100
          THEN MathRound(subtotal * (surgeMultiplier - 100), 100)
          ELSE {0}
  IN  UNION { UNION { UNION { {
        [baseFare |-> baseFare, distanceFare |-> distanceFare, timeFare |-> timeFare,
         surgeFare |-> surgeFare, surgeMultiplier |-> surgeMultiplier, taxes |-> taxes,
         subtotal |-> baseFare + distanceFare + timeFare,
         \* Math.round of a sum of hundredths is that sum
         total |-> baseFare + distanceFare + timeFare + surgeFare + taxes] :
          taxes \in MathRound((baseFare + distanceFare + timeFare + surgeFare) * 5, 100) } :
          surgeFare \in Surge(baseFare + distanceFare + timeFare) } :
          timeFare \in MathRound(durationMins * config.perMin, 10) } :
          distanceFare \in MathRound(distanceKm * config.perKm, 1) }

\* a call of calculateFare with the arguments of the state returns
calculateFareReturn(breakdown) ==
  /\ ~fare.returned
  /\ breakdown \in calculateFare(fare.tier, fare.distanceKm, fare.durationMins,
                                  fare.surgeMultiplier)
  /\ fare' = [fare EXCEPT !.returned = TRUE, !.breakdown = breakdown]
  /\ UNCHANGED <<rideVars, payVars, envVars, mwVars, lockVars, sockVars, cfgVars, simVars, tripVars, txVars>>

\* -------------------------------------------------- idempotency middleware
CoreUnchanged == UNCHANGED <<rideVars, payVars, envVars, lockVars, fareVars, sockVars, cfgVars, simVars, tripVars, txVars>>

\* a request with Idempotency-Key k reaches the middleware of a guarded route
idempotency(c, k) ==
  /\ mwReq[c].pc = "idle"
  /\ mwReq' = [mwReq EXCEPT ![c] = [IdleReq EXCEPT !.pc = "lock", !.key = k, !.prior = mwFirst[k]]]
  /\ UNCHANGED <<mwLock, mwCache, mwRuns, mwFirst>>
  /\ CoreUnchanged

\* the answer is sent; the first answer of the handler or of the cache for a
\* key is remembered
Respond(c, r, fromHandlerOrCache) ==
  /\ mwReq' = [mwReq EXCEPT ![c].pc = "sent", ![c].resp = r]
  /\ mwFirst' = IF fromHandlerOrCache /\ mwFirst[mwReq[c].key] = NoResponse
                  THEN [mwFirst EXCEPT ![mwReq[c].key] = r]
                  ELSE mwFirst

\* SET <cacheKey>:lock 1 EX 30 NX; a held lock is answered 409
\* IDEMPOTENCY_IN_PROGRESS
idempotencyLock(c) ==
  /\ mwReq[c].pc = "lock"
  /\ IF mwLock[mwReq[c].key]
       THEN /\ Respond(c, [statusCode |-> 409, body |-> 0], FALSE)
            /\ UNCHANGED mwLock
       ELSE /\ mwLock' = [mwLock EXCEPT ![mwReq[c].key] = TRUE]
            /\ mwReq' = [mwReq EXCEPT ![c].pc = "get"]
            /\ UNCHANGED mwFirst
  /\ UNCHANGED <<mwCache, mwRuns>>
  /\ CoreUnchanged

\* GET <cacheKey>: a cached response is sent as it is and the lock deleted;
\* otherwise res.json is wrapped and next() called
idempotencyGet(c) ==
  /\ mwReq[c].pc = "get"
  /\ IF mwCache[mwReq[c].key] # NoResponse
       THEN /\ mwLock' = [mwLock EXCEPT ![mwReq[c].key] = FALSE]
            /\ Respond(c, mwCache[mwReq[c].key], TRUE)
       ELSE /\ mwReq' = [mwReq EXCEPT ![c].pc = "next"]
            /\ UNCHANGED <<mwLock, mwFirst>>
  /\ UNCHANGED <<mwCache, mwRuns>>
  /\ CoreUnchanged

\* the route handler runs (POST /rides: a ride is created, or the request is
\* refused) and calls res.json
routeHandler(c, statusCode) ==
  /\ mwReq[c].pc = "next"
  /\ mwRuns < MaxRuns
  /\ mwRuns' = mwRuns + 1
  /\ mwReq' = [mwReq EXCEPT ![c].pc = "json", ![c].ran = TRUE,
                            ![c].resp = [statusCode |-> statusCode, body |-> mwRuns + 1]]
  /\ UNCHANGED <<mwLock, mwCache, mwFirst>>
  /\ CoreUnchanged

\* the wrapped res.json: SETEX <cacheKey> 24 h, DEL <cacheKey>:lock, then the
\* response is sent
resJson(c) ==
  /\ mwReq[c].pc = "json"
  /\ mwCache' = [mwCache EXCEPT ![mwReq[c].key] = mwReq[c].resp]
  /\ mwLock' = [mwLock EXCEPT ![mwReq[c].key] = FALSE]
  /\ Respond(c, mwReq[c].resp, TRUE)
  /\ UNCHANGED mwRuns
  /\ CoreUnchanged

\* the client has its answer
requestDone(c) ==
  /\ mwReq[c].pc = "sent"
  /\ mwReq' = [mwReq EXCEPT ![c] = IdleReq]
  /\ UNCHANGED <<mwLock, mwCache, mwRuns, mwFirst>>
  /\ CoreUnchanged

\* the 30 s of <cacheKey>:lock run out while its request is still in the handler
idempotencyLockExpire(k) ==
  /\ mwLock[k]
  /\ \E c \in Callers : mwReq[c].key = k /\ mwReq[c].pc \in {"next", "json"}
  /\ mwLock' = [mwLock EXCEPT ![k] = FALSE]
  /\ UNCHANGED <<mwReq, mwCache, mwRuns, mwFirst>>
  /\ CoreUnchanged

\* ------------------------------------------------------------------- Next
\* matching and acceptance: one ride offered to the drivers
Next ==
  \/ \E r \in Rides : createRide(r)
  \/ \E r \in Rides : cancelRide(r)
  \/ \E d \in Drivers : cancelRideFreeDriver(d)
  \/ \E r \in Rides : findDriversForRideRead(r)
  \/ \E r \in Rides : findDriversForRideLateWrite(r)
  \/ \E r \in Rides, nearby \in SUBSET Drivers : findDriversForRideNearby(r, nearby)
  \/ \E r \in Rides, d \in Drivers : createRideOffer(r, d)
  \/ \E d \in Drivers, r \in Rides : acquireLock(d, r)
  \/ \E d \in Drivers : acceptRideTx(d)
  \/ \E d \in Drivers : acceptRideCommit(d)
  \/ \E d \in Drivers : releaseLock(d)
  \/ \E r \in Rides, d \in Drivers : declineRide(r, d)

Spec == Init /\ [][Next]_vars

\* the whole lifecycle of one ride with one driver
LifeDrivers == {1}

NextLife ==
  \/ \E r \in Rides : createRide(r)
  \/ \E r \in Rides : cancelRide(r)
  \/ \E d \in LifeDrivers : cancelRideFreeDriver(d)
  \/ \E r \in Rides : findDriversForRideRead(r)
  \/ \E r \in Rides : findDriversForRideLateWrite(r)
  \/ \E r \in Rides, nearby \in SUBSET LifeDrivers : findDriversForRideNearby(r, nearby)
  \/ \E r \in Rides, d \in LifeDrivers : createRideOffer(r, d)
  \/ \E d \in LifeDrivers, r \in Rides : acquireLock(d, r)
  \/ \E d \in LifeDrivers : acceptRideTx(d)
  \/ \E d \in LifeDrivers : acceptRideCommit(d)
  \/ \E d \in LifeDrivers : releaseLock(d)
  \/ \E r \in Rides, s \in validStatuses : updateRideStatusForTrip(r, s)
  \/ \E r \in Rides : startTrip(r)
  \/ \E t \in 1..MaxTrips : endTrip(t)
  \/ \E d \in LifeDrivers, s \in DriverStatuses : updateDriverStatus(d, s)

SpecLife == Init /\ [][NextLife]_vars

\* status updates through PATCH /rides/:id/status, one at a time, and the
\* ride cache
StatusCallers == {1}

NextStatus ==
  \/ \E r \in Rides : createRide(r)
  \/ \E r \in Rides : getRideById(r)
  \/ \E r \in Rides : rideCacheExpire(r)
  \/ \E c \in StatusCallers, r \in Rides, s \in RideStatuses :
       \E v \in 0..MaxVersion : updateRideStatusRead(c, r, s, v)
  \/ \E c \in StatusCallers : updateRideStatusWrite(c)
  \/ \E c \in StatusCallers : updateRideStatusReturn(c)
  \/ \E r \in Rides : cancelRide(r)
  \/ \E r \in Rides : findDriversForRideRead(r)
  \/ \E r \in Rides : findDriversForRideLateWrite(r)
  \/ \E r \in Rides : findDriversForRideNearby(r, {})
  \/ \E r \in Rides, s \in validStatuses : updateRideStatusForTrip(r, s)
  \/ \E r \in Rides : startTrip(r)
  \/ \E t \in 1..MaxTrips : endTrip(t)

SpecStatus == Init /\ [][NextStatus]_vars

\* payment, retry and refund of one trip, every transaction committing at its
\* first attempt; the ride is IN_PROGRESS with driver 1, as startTrip leaves it
InitPay ==
  /\ rides = [r \in Rides |-> [status |-> "IN_PROGRESS", driver_id |-> 1, version |-> 5]]
  /\ drivers = [d \in Drivers |-> [status |-> IF d = 1 THEN "busy" ELSE "online"]]
  /\ offers = <<[ride_id |-> 1, driver_id |-> 1, status |-> "accepted"]>>
  /\ trips = <<[ride_id |-> 1, status |-> "IN_PROGRESS"]>>
  /\ rideCache = [r \in Rides |-> "NONE"]
  /\ rowLock = [r \in Rides |-> 0]
  /\ distLock = [r \in Rides |-> 0]
  /\ lateWrites = [r \in Rides |-> 0]
  /\ fd = [r \in Rides |-> IdleFd]
  /\ acc = [d \in Drivers |-> IdleAcc]
  /\ urs = [c \in Callers |-> IdleUrs]
  /\ cnl = {}
  /\ payments = <<>>
  /\ idem = [k \in Keys |-> NoPayment]
  /\ payLock = [t \in TripIds |-> 0]
  /\ psp = [calls |-> 0, completed |-> 0]
  /\ pay = [p \in Callers |-> IdlePay]
  /\ ret = [k \in Keys |-> NoPayment]
  /\ tenant = [ride |-> [r \in Rides |-> 1], driver |-> [d \in Drivers |-> 1]]
  /\ geo = Drivers \ {1}
  /\ sim = {1}
  /\ loc = Drivers
  /\ due = {}
  /\ InitEdge

NextPay ==
  \/ \E t \in TripIds : endTrip(t)
  \/ \E p \in Callers, t \in TripIds, m \in PaymentMethods, k \in Keys : processPayment(p, t, m, k)
  \/ \E p \in Callers : checkIdempotencyKey(p)
  \/ \E p \in Callers : acquirePaymentLock(p)
  \/ \E p \in Callers : recheckIdempotencyKey(p)
  \/ \E p \in Callers : processPaymentTx(p)
  \/ \E p \in Callers, o \in {"completed", "failed"} : processPaymentPsp(p, o)
  \/ \E p \in Callers : executeTransactionCommit(p)
  \/ \E p \in Callers : releasePaymentLock(p)
  \/ \E p \in Callers, i \in 1..MaxTrips, k \in Keys : retryPayment(p, i, k)
  \/ \E p \in Callers : retryPaymentUpdate(p)
  \/ \E p \in Callers, i \in 1..MaxTrips : initiateRefund(p, i)
  \/ \E p \in Callers : initiateRefundUpdate(p)

SpecPay == InitPay /\ [][NextPay]_vars

\* two drivers answer the offers of one ride in MATCHING: each driver holds a
\* pending offer, next to the declined or repeated rows earlier
\* findDriversForRide calls have left; each driver calls acceptRide once
RaceOffers ==
  UNION {[1..n -> [ride_id : Rides, driver_id : Drivers, status : {"pending", "declined"}]] :
           n \in MaxDrivers..MaxRaceOffers}

InitRace ==
  /\ rides = [r \in Rides |-> [status |-> "MATCHING", driver_id |-> NoDriver, version |-> 1]]
  /\ drivers = [d \in Drivers |-> [status |-> "online"]]
  /\ offers \in RaceOffers
  /\ \A d \in Drivers : \E i \in OfferIdx : offers[i].driver_id = d /\ offers[i].status = "pending"
  /\ trips = <<>>
  /\ rideCache = [r \in Rides |-> "NONE"]
  /\ rowLock = [r \in Rides |-> 0]
  /\ distLock = [r \in Rides |-> 0]
  /\ lateWrites = [r \in Rides |-> 0]
  /\ fd = [r \in Rides |-> IdleFd]
  /\ acc = [d \in Drivers |-> IdleAcc]
  /\ urs = [c \in Callers |-> IdleUrs]
  /\ cnl = {}
  /\ payments = <<>>
  /\ idem = [k \in Keys |-> NoPayment]
  /\ payLock = [t \in TripIds |-> 0]
  /\ psp = [calls |-> 0, completed |-> 0]
  /\ pay = [p \in Callers |-> IdlePay]
  /\ ret = [k \in Keys |-> NoPayment]
  /\ tenant = [ride |-> [r \in Rides |-> 1], driver |-> [d \in Drivers |-> 1]]
  /\ geo = Drivers
  /\ sim = {}
  /\ loc = Drivers
  /\ due = {}
  /\ InitEdge

NextRace ==
  \/ \E d \in Drivers, r \in Rides : acc[d].res = "none" /\ acquireLock(d, r)
  \/ \E d \in Drivers : acceptRideTx(d)
  \/ \E d \in Drivers : acceptRideCommit(d)
  \/ \E d \in Drivers : releaseLock(d)

SpecRace == InitRace /\ [][NextRace]_vars

\* processPayment and retryPayment on one trip, with transactions that fail
\* to serialize and are run again
NextCharge ==
  \/ \E t \in TripIds : endTrip(t)
  \/ \E p \in Callers, t \in TripIds, m \in PaymentMethods, k \in Keys : processPayment(p, t, m, k)
  \/ \E p \in Callers : checkIdempotencyKey(p)
  \/ \E p \in Callers : acquirePaymentLock(p)
  \/ \E p \in Callers : recheckIdempotencyKey(p)
  \/ \E p \in Callers : processPaymentTx(p)
  \/ \E p \in Callers, o \in {"completed", "failed"} : processPaymentPsp(p, o)
  \/ \E p \in Callers : executeTransactionCommit(p)
  \/ \E p \in Callers : executeTransactionRetry(p)
  \/ \E p \in Callers : releasePaymentLock(p)
  \/ \E p \in Callers, i \in 1..MaxTrips, k \in Keys : retryPayment(p, i, k)
  \/ \E p \in Callers : retryPaymentUpdate(p)

SpecCharge == InitPay /\ [][NextCharge]_vars

\* matching and acceptance of one ride among drivers of several tenants, every
\* driver online and in the geo index
InitTenant ==
  /\ rides = [r \in Rides |-> NoRide]
  /\ drivers = [d \in Drivers |-> [status |-> "online"]]
  /\ offers = <<>>
  /\ trips = <<>>
  /\ rideCache = [r \in Rides |-> "NONE"]
  /\ rowLock = [r \in Rides |-> 0]
  /\ distLock = [r \in Rides |-> 0]
  /\ lateWrites = [r \in Rides |-> 0]
  /\ fd = [r \in Rides |-> IdleFd]
  /\ acc = [d \in Drivers |-> IdleAcc]
  /\ urs = [c \in Callers |-> IdleUrs]
  /\ cnl = {}
  /\ payments = <<>>
  /\ idem = [k \in Keys |-> NoPayment]
  /\ payLock = [t \in TripIds |-> 0]
  /\ psp = [calls |-> 0, completed |-> 0]
  /\ pay = [p \in Callers |-> IdlePay]
  /\ ret = [k \in Keys |-> NoPayment]
  /\ tenant \in [ride : [Rides -> Tenants], driver : [Drivers -> Tenants]]
  /\ geo = Drivers
  /\ sim = {}
  /\ loc = Drivers
  /\ due = {}
  /\ InitEdge

NextTenant ==
  \/ \E r \in Rides : createRide(r)
  \/ \E r \in Rides : findDriversForRideRead(r)
  \/ \E r \in Rides : findDriversForRideLateWrite(r)
  \/ \E r \in Rides, nearby \in SUBSET Drivers : findDriversForRideNearby(r, nearby)
  \/ \E r \in Rides, d \in Drivers : createRideOffer(r, d)
  \/ \E d \in Drivers, r \in Rides : acquireLock(d, r)
  \/ \E d \in Drivers : acceptRideTx(d)
  \/ \E d \in Drivers : acceptRideCommit(d)
  \/ \E d \in Drivers : releaseLock(d)

SpecTenant == InitTenant /\ [][NextTenant]_vars

\* one ride is matched, accepted, driven towards the pickup and cancelled,
\* while the driver's simulation runs
NextCancel ==
  \/ \E r \in Rides : createRide(r)
  \/ \E r \in Rides : findDriversForRideRead(r)
  \/ \E r \in Rides : findDriversForRideLateWrite(r)
  \/ \E r \in Rides, nearby \in SUBSET LifeDrivers : findDriversForRideNearby(r, nearby)
  \/ \E r \in Rides, d \in LifeDrivers : createRideOffer(r, d)
  \/ \E d \in LifeDrivers, r \in Rides : acquireLock(d, r)
  \/ \E d \in LifeDrivers : acceptRideTx(d)
  \/ \E d \in LifeDrivers : acceptRideCommit(d)
  \/ \E d \in LifeDrivers : releaseLock(d)
  \/ \E r \in Rides, s \in validStatuses : updateRideStatusForTrip(r, s)
  \/ \E d \in LifeDrivers, arrived \in BOOLEAN : updateDriverPosition(d, arrived)
  \/ \E r \in Rides : cancelRide(r)
  \/ \E d \in LifeDrivers : cancelRideFreeDriver(d)

SpecCancel == Init /\ [][NextCancel]_vars

\* the running server while no driver answers: rides are created and matched,
\* time passes; startServer sets up no timer that calls expirePendingOffers,
\* and no route or consumer calls it. Every request that was started runs to
\* its end and the clock advances.
NextExpiry ==
  \/ \E r \in Rides : createRide(r)
  \/ \E r \in Rides : findDriversForRideRead(r)
  \/ \E r \in Rides : findDriversForRideLateWrite(r)
  \/ \E r \in Rides, nearby \in SUBSET Drivers : findDriversForRideNearby(r, nearby)
  \/ \E r \in Rides, d \in Drivers : createRideOffer(r, d)
  \/ \E i \in 1..MaxOffers : offerExpiresAtPasses(i)

SpecExpiry ==
  /\ Init
  /\ [][NextExpiry]_vars
  /\ WF_vars(\E r \in Rides : findDriversForRideLateWrite(r))
  /\ WF_vars(\E r \in Rides, nearby \in SUBSET Drivers : findDriversForRideNearby(r, nearby))
  /\ WF_vars(\E r \in Rides, d \in Drivers : createRideOffer(r, d))
  /\ WF_vars(\E i \in 1..MaxOffers : offerExpiresAtPasses(i))

\* the same server with a periodic sweep calling expirePendingOffers
NextSweep == NextExpiry \/ expirePendingOffers

SpecSweep ==
  /\ Init
  /\ [][NextSweep]_vars
  /\ WF_vars(\E r \in Rides : findDriversForRideLateWrite(r))
  /\ WF_vars(\E r \in Rides, nearby \in SUBSET Drivers : findDriversForRideNearby(r, nearby))
  /\ WF_vars(\E r \in Rides, d \in Drivers : createRideOffer(r, d))
  /\ WF_vars(\E i \in 1..MaxOffers : offerExpiresAtPasses(i))
  /\ WF_vars(expirePendingOffers)

\* matching alone: rides are created and findDriversForRide is called on them,
\* nothing else touches the rides
NextMatch ==
  \/ \E r \in Rides : createRide(r)
  \/ \E r \in Rides : findDriversForRideRead(r)
  \/ \E r \in Rides : findDriversForRideLateWrite(r)
  \/ \E r \in Rides, nearby \in SUBSET Drivers : findDriversForRideNearby(r, nearby)
  \/ \E r \in Rides, d \in Drivers : createRideOffer(r, d)

SpecMatch == Init /\ [][NextMatch]_vars

\* concurrent status updates of one ride with expected versions, next to the
\* other writers of the row
NextVersion ==
  \/ \E r \in Rides : createRide(r)
  \/ \E r \in Rides : getRideById(r)
  \/ \E c \in Callers, r \in Rides, s \in RideStatuses :
       \E v \in 0..MaxVersion : updateRideStatusRead(c, r, s, v)
  \/ \E c \in Callers : updateRideStatusWrite(c)
  \/ \E c \in Callers : updateRideStatusReturn(c)
  \/ \E r \in Rides, s \in validStatuses : updateRideStatusForTrip(r, s)
  \/ \E r \in Rides : cancelRide(r)

SpecVersion == Init /\ [][NextVersion]_vars

\* requests with idempotency keys on POST /rides
NextIdem ==
  \/ \E c \in Callers, k \in Keys : idempotency(c, k)
  \/ \E c \in Callers : idempotencyLock(c)
  \/ \E c \in Callers : idempotencyGet(c)
  \/ \E c \in Callers, sc \in {201, 400} : routeHandler(c, sc)
  \/ \E c \in Callers : resJson(c)
  \/ \E c \in Callers : requestDone(c)
  \/ \E k \in Keys : idempotencyLockExpire(k)

SpecIdem == Init /\ [][NextIdem]_vars

\* the race of SpecRace with Redis unavailable: acquireLock hands out mock locks
NextMock ==
  \/ \E d \in Drivers, r \in Rides : acc[d].res = "none" /\ acquireLockMock(d, r)
  \/ \E d \in Drivers : acceptRideTx(d)
  \/ \E d \in Drivers : acceptRideCommit(d)
  \/ \E d \in Drivers : releaseLock(d)

SpecMock == InitRace /\ [][NextMock]_vars

\* the race of SpecRace with acceptRide's transaction taken step by step:
\* callback, then COMMIT or ROLLBACK
NextEffects ==
  \/ \E d \in Drivers, r \in Rides : acc[d].res = "none" /\ acquireLock(d, r)
  \/ \E d \in Drivers : acceptRideTx(d)
  \/ \E d \in Drivers : acceptRideCallback(d)
  \/ \E d \in Drivers : acceptRideCallbackThrows(d)
  \/ \E d \in Drivers : acceptRideCommitted(d)
  \/ \E d \in Drivers, retryable \in BOOLEAN : acceptRideRolledBack(d, retryable)
  \/ \E d \in Drivers : releaseLock(d)

SpecEffects == InitRace /\ [][NextEffects]_vars

\* processPayment calls on one trip with the release of the lock taken in its
\* two commands, and leases that run out
NextFence ==
  \/ \E t \in TripIds : endTrip(t)
  \/ \E p \in Callers, t \in TripIds, m \in PaymentMethods, k \in Keys : processPayment(p, t, m, k)
  \/ \E p \in Callers : checkIdempotencyKey(p)
  \/ \E p \in Callers : acquirePaymentLock(p)
  \/ \E p \in Callers : recheckIdempotencyKey(p)
  \/ \E p \in Callers : processPaymentTx(p)
  \/ \E p \in Callers, o \in {"completed", "failed"} : processPaymentPsp(p, o)
  \/ \E p \in Callers : executeTransactionCommit(p)
  \/ \E p \in Callers : releasePaymentLockGet(p)
  \/ \E p \in Callers : releasePaymentLockDel(p)
  \/ \E t \in TripIds : paymentLockExpires(t)

SpecFence == InitPay /\ [][NextFence]_vars

\* repeated and concurrent processPayment calls with one idempotency key on
\* the completed trip, one of the three safeguards out of order
Safeguards == {"cache", "lock", "unique"}

InitSafeguard ==
  /\ rides = [r \in Rides |-> [status |-> "COMPLETED", driver_id |-> 1, version |-> 6]]
  /\ drivers = [d \in Drivers |-> [status |-> "online"]]
  /\ offers = <<[ride_id |-> 1, driver_id |-> 1, status |-> "accepted"]>>
  /\ trips = <<[ride_id |-> 1, status |-> "COMPLETED"]>>
  /\ rideCache = [r \in Rides |-> "NONE"]
  /\ rowLock = [r \in Rides |-> 0]
  /\ distLock = [r \in Rides |-> 0]
  /\ lateWrites = [r \in Rides |-> 0]
  /\ fd = [r \in Rides |-> IdleFd]
  /\ acc = [d \in Drivers |-> IdleAcc]
  /\ urs = [c \in Callers |-> IdleUrs]
  /\ cnl = {}
  /\ payments = <<>>
  /\ idem = [k \in Keys |-> NoPayment]
  /\ payLock = [t \in TripIds |-> 0]
  /\ psp = [calls |-> 0, completed |-> 0]
  /\ pay = [p \in Callers |-> IdlePay]
  /\ ret = [k \in Keys |-> NoPayment]
  /\ tenant = [ride |-> [r \in Rides |-> 1], driver |-> [d \in Drivers |-> 1]]
  /\ geo = Drivers
  /\ sim = {}
  /\ loc = Drivers
  /\ due = {}
  /\ InitMw
  /\ InitSock
  /\ InitSim
  /\ InitTrip
  /\ InitTx
  /\ wl = [c \in Callers |-> IdleWl]
  /\ fare = NoFare
  /\ off \in Safeguards

NextSafeguard ==
  \/ \E p \in Callers, t \in TripIds, m \in PaymentMethods : processPayment(p, t, m, 1)
  \/ \E p \in Callers : checkIdempotencyKey(p)
  \/ \E p \in Callers : acquirePaymentLock(p)
  \/ \E p \in Callers : recheckIdempotencyKey(p)
  \/ \E p \in Callers : processPaymentTx(p)
  \/ \E p \in Callers, o \in {"completed", "failed"} : processPaymentPsp(p, o)
  \/ \E p \in Callers : executeTransactionCommit(p)
  \/ \E p \in Callers : releasePaymentLock(p)

SpecSafeguard == InitSafeguard /\ [][NextSafeguard]_vars

\* simulations of the drivers are started, switched and stopped
NextSim ==
  \/ \E c \in Callers, d \in Drivers : startDriverSimulation(c, d, "TO_PICKUP")
  \/ \E c \in Callers, d \in Drivers : switchToTripPhase(c, d)
  \/ \E c \in Callers, rideFound \in BOOLEAN : startDriverSimulationSet(c, rideFound)
  \/ \E d \in Drivers : stopDriverSimulation(d)
  \/ \E i \in intervals : intervalArrived(i)

SpecSim == Init /\ [][NextSim]_vars

\* matching and accepting while the clock advances past offers' expires_at,
\* with and without a sweep calling expirePendingOffers
NextTimebox ==
  \/ \E r \in Rides : createRide(r)
  \/ \E r \in Rides : findDriversForRideRead(r)
  \/ \E r \in Rides : findDriversForRideLateWrite(r)
  \/ \E r \in Rides, nearby \in SUBSET LifeDrivers : findDriversForRideNearby(r, nearby)
  \/ \E r \in Rides, d \in LifeDrivers : createRideOffer(r, d)
  \/ \E d \in LifeDrivers, r \in Rides : acquireLock(d, r)
  \/ \E d \in LifeDrivers : acceptRideTx(d)
  \/ \E d \in LifeDrivers : acceptRideCommit(d)
  \/ \E d \in LifeDrivers : releaseLock(d)
  \/ \E i \in 1..MaxOffers : offerExpiresAtPasses(i)
  \/ expirePendingOffers

SpecTimebox == Init /\ [][NextTimebox]_vars

\* one ride driven only through the status calls and startTrip
NextTrip ==
  \/ \E r \in Rides : createRide(r)
  \/ \E c \in StatusCallers, r \in Rides, s \in RideStatuses :
       \E v \in 0..MaxVersion : updateRideStatusRead(c, r, s, v)
  \/ \E c \in StatusCallers : updateRideStatusWrite(c)
  \/ \E c \in StatusCallers : updateRideStatusReturn(c)
  \/ \E r \in Rides, s \in validStatuses : updateRideStatusForTrip(r, s)
  \/ \E r \in Rides : startTrip(r)

SpecTrip == Init /\ [][NextTrip]_vars

\* ride 1 in progress with driver 1 after create, accept, arrival and startTrip
InitEndTrip ==
  /\ rides = [r \in Rides |-> [status |-> "IN_PROGRESS", driver_id |-> 1, version |-> 3]]
  /\ drivers = [d \in Drivers |-> [status |-> IF d = 1 THEN "busy" ELSE "online"]]
  /\ offers = <<[ride_id |-> 1, driver_id |-> 1, status |-> "accepted"]>>
  /\ trips = <<[ride_id |-> 1, status |-> "IN_PROGRESS"]>>
  /\ rideCache = [r \in Rides |-> "NONE"]
  /\ rowLock = [r \in Rides |-> 0]
  /\ distLock = [r \in Rides |-> 0]
  /\ lateWrites = [r \in Rides |-> 0]
  /\ fd = [r \in Rides |-> IdleFd]
  /\ acc = [d \in Drivers |-> IdleAcc]
  /\ urs = [c \in Callers |-> IdleUrs]
  /\ cnl = {}
  /\ payments = <<>>
  /\ idem = [k \in Keys |-> NoPayment]
  /\ payLock = [t \in TripIds |-> 0]
  /\ psp = [calls |-> 0, completed |-> 0]
  /\ pay = [p \in Callers |-> IdlePay]
  /\ ret = [k \in Keys |-> NoPayment]
  /\ tenant = [ride |-> [r \in Rides |-> 1], driver |-> [d \in Drivers |-> 1]]
  /\ geo = Drivers \ {1}
  /\ sim = {1}
  /\ loc = Drivers
  /\ due = {}
  /\ InitEdge

\* a trip in progress and callers ending it, one after the other or at once
NextEndTrip ==
  \/ \E c \in Callers, t \in TripIds : endTripSelect(c, t)
  \/ \E c \in Callers : endTripCommit(c)
  \/ \E c \in Callers : endTripRolledBack(c)
  \/ \E t \in 1..MaxTrips : endTrip(t)
  \/ \E r \in Rides, s \in validStatuses : updateRideStatusForTrip(r, s)
  \/ \E r \in Rides : startTrip(r)

SpecEndTrip == InitEndTrip /\ [][NextEndTrip]_vars

\* matching, with the offered drivers declining
NextDecline ==
  \/ NextMatch
  \/ \E r \in Rides, d \in Drivers : declineRide(r, d)

SpecDecline == Init /\ [][NextDecline]_vars

\* sockets connect, register and subscribe while a ride is matched and its
\* offers are notified
UserTypes == {"rider", "driver"}

\* the client behind each socket: the first is a driver's app, the others the
\* rider's
SocketUser(s) == IF s = 1 THEN 1 ELSE Rider

SocketUserType(s) == IF s = 1 THEN "driver" ELSE "rider"

NextSocket ==
  \/ \E r \in Rides : createRide(r)
  \/ \E r \in Rides : findDriversForRideRead(r)
  \/ \E r \in Rides : findDriversForRideLateWrite(r)
  \/ \E r \in Rides, nearby \in SUBSET LifeDrivers : findDriversForRideNearby(r, nearby)
  \/ \E r \in Rides, d \in LifeDrivers : createRideOffer(r, d)
  \/ \E s \in Sockets : connection(s)
  \/ \E s \in Sockets : \E userId \in {0, SocketUser(s)}, userType \in {SocketUserType(s)} :
       register(s, userId, userType)
  \/ \E s \in Sockets, r \in Rides : subscribeRide(s, r)
  \/ \E s \in Sockets, r \in Rides : unsubscribeRide(s, r)
  \/ \E s \in Sockets : disconnect(s)
  \/ \E message \in topic : handleNotification(message)

SpecSocket == Init /\ [][NextSocket]_vars

\* calculateFare on every tier, distance, duration and surge of the grid
InitFare ==
  /\ rides = [r \in Rides |-> NoRide]
  /\ drivers = [d \in Drivers |-> [status |-> "online"]]
  /\ offers = <<>>
  /\ trips = <<>>
  /\ rideCache = [r \in Rides |-> "NONE"]
  /\ rowLock = [r \in Rides |-> 0]
  /\ distLock = [r \in Rides |-> 0]
  /\ lateWrites = [r \in Rides |-> 0]
  /\ fd = [r \in Rides |-> IdleFd]
  /\ acc = [d \in Drivers |-> IdleAcc]
  /\ urs = [c \in Callers |-> IdleUrs]
  /\ cnl = {}
  /\ payments = <<>>
  /\ idem = [k \in Keys |-> NoPayment]
  /\ payLock = [t \in TripIds |-> 0]
  /\ psp = [calls |-> 0, completed |-> 0]
  /\ pay = [p \in Callers |-> IdlePay]
  /\ ret = [k \in Keys |-> NoPayment]
  /\ tenant = [ride |-> [r \in Rides |-> 1], driver |-> [d \in Drivers |-> 1]]
  /\ geo = Drivers
  /\ sim = {}
  /\ loc = Drivers
  /\ due = {}
  /\ InitMw
  /\ InitSock
  /\ InitSim
  /\ InitTrip
  /\ InitTx
  /\ off = "none"
  /\ wl = [c \in Callers |-> IdleWl]
  /\ fare \in [tier : Tiers, distanceKm : DistancesKm, durationMins : DurationsMins,
                surgeMultiplier : SurgeMultipliers, returned : {FALSE},
                breakdown : {NoBreakdown}]

NextFare ==
  \E breakdown \in calculateFare(fare.tier, fare.distanceKm, fare.durationMins,
                                  fare.surgeMultiplier) :
    calculateFareReturn(breakdown)

SpecFare == InitFare /\ [][NextFare]_vars

\* acceptRide calls of the drivers and a withLock call on the same resource,
\* while the ride is created, matched and cancelled
LockCallers == {1}

NextLock ==
  \/ \E r \in Rides : createRide(r)
  \/ \E r \in Rides : cancelRide(r)
  \/ \E d \in Drivers : cancelRideFreeDriver(d)
  \/ \E r \in Rides : findDriversForRideRead(r)
  \/ \E r \in Rides : findDriversForRideLateWrite(r)
  \/ \E r \in Rides, nearby \in SUBSET LifeDrivers : findDriversForRideNearby(r, nearby)
  \/ \E r \in Rides, d \in LifeDrivers : createRideOffer(r, d)
  \/ \E d \in Drivers, r \in Rides : acquireLock(d, r)
  \/ \E d \in Drivers : acceptRideTx(d)
  \/ \E d \in Drivers : acceptRideCommit(d)
  \/ \E d \in Drivers : releaseLock(d)
  \/ \E c \in LockCallers, r \in Rides : withLock(c, r)
  \/ \E c \in LockCallers, threw \in BOOLEAN : withLockFn(c, threw)
  \/ \E c \in LockCallers : withLockFinally(c)

SpecLock == Init /\ [][NextLock]_vars

\* ----------------------------------------------------------------- claims
AcceptedOffers(r) ==
  {i \in OfferIdx : offers[i].ride_id = r /\ offers[i].status = "accepted"}

ActiveStatuses == {"DRIVER_ASSIGNED", "DRIVER_EN_ROUTE", "DRIVER_ARRIVED", "IN_PROGRESS"}

ActiveRides(d) ==
  {r \in Rides : rides[r].driver_id = d /\ rides[r].status \in ActiveStatuses}

\* C1: uniqueness of assignment. Over every interleaving of findDriversForRide,
\* acceptRide, declineRide and cancelRide on a ride, at most one of the ride's
\* offers has status accepted, and ride.driver_id, once it names a driver, is
\* never replaced by a different driver.
C1_UniqueAssignment ==
  [][\A r \in Rides :
       /\ Cardinality({i \in 1..Len(offers') :
                         offers'[i].ride_id = r /\ offers'[i].status = "accepted"}) <= 1
       /\ rides[r].driver_id # NoDriver => rides'[r].driver_id = rides[r].driver_id]_vars

\* C2: race acceptance. Two online drivers, each holding a pending offer for
\* the ride in MATCHING, call acceptRide concurrently; when both calls have
\* returned, exactly one has succeeded, exactly one offer of the ride is
\* accepted, the loser has no pending or accepted offer left and a cancelled
\* one, the winner is busy and the loser is online.
C2_RaceAcceptance ==
  (\A d \in Drivers : acc[d].pc = "idle" /\ acc[d].res # "none") =>
    \E w \in Drivers :
      /\ acc[w].res = "ok"
      /\ drivers[w].status = "busy"
      /\ \A r \in Rides : Cardinality(AcceptedOffers(r)) = 1
      /\ \A l \in Drivers \ {w} :
           /\ acc[l].res # "ok"
           /\ drivers[l].status = "online"
           /\ \E i \in OfferIdx : offers[i].driver_id = l /\ offers[i].status = "cancelled"
           /\ \A i \in OfferIdx : offers[i].driver_id = l => offers[i].status \in {"cancelled", "declined"}

\* the transition table of the ride lifecycle, with the creation of the row
C3_Table(s) ==
  CASE s = "NONE" -> {"REQUESTED"}
    [] s = "REQUESTED" -> {"MATCHING", "CANCELLED"}
    [] s = "MATCHING" -> {"DRIVER_ASSIGNED", "CANCELLED", "REQUESTED"}
    [] s = "DRIVER_ASSIGNED" -> {"DRIVER_EN_ROUTE", "CANCELLED"}
    [] s = "DRIVER_EN_ROUTE" -> {"DRIVER_ARRIVED", "CANCELLED"}
    [] s = "DRIVER_ARRIVED" -> {"IN_PROGRESS", "CANCELLED"}
    [] s = "IN_PROGRESS" -> {"COMPLETED"}
    [] OTHER -> {}

\* C3: status reachability. Every change of a ride's stored status, by any
\* operation, is an edge of the transition table.
C3_StatusReachability ==
  [][\A r \in Rides :
       rides'[r].status # rides[r].status => rides'[r].status \in C3_Table(rides[r].status)]_vars

\* C4: terminal states are absorbing. Once a ride's stored status is COMPLETED
\* or CANCELLED, no operation changes it again.
C4_TerminalAbsorbing ==
  [][\A r \in Rides :
       rides[r].status \in {"COMPLETED", "CANCELLED"} => rides'[r].status = rides[r].status]_vars

\* C5: cancelRide succeeds only from REQUESTED, MATCHING, DRIVER_ASSIGNED,
\* DRIVER_EN_ROUTE or DRIVER_ARRIVED; on a ride IN_PROGRESS it fails and
\* changes nothing.
C5_CancelNotInProgress ==
  [][\A r \in Rides :
       cancelRide(r) =>
         rides[r].status \in {"REQUESTED", "MATCHING", "DRIVER_ASSIGNED",
                              "DRIVER_EN_ROUTE", "DRIVER_ARRIVED"}]_vars

\* no operation on a ride or a driver is under way
Quiescent ==
  /\ \A r \in Rides : fd[r].pc = "idle" /\ lateWrites[r] = 0
  /\ \A c \in Callers : urs[c].pc = "idle"
  /\ \A d \in Drivers : acc[d].pc = "idle"
  /\ cnl = {}

\* C6: driver-status coherence. Whenever every operation has completed, a
\* driver is busy if and only if exactly one ride with that driver is in
\* DRIVER_ASSIGNED, DRIVER_EN_ROUTE, DRIVER_ARRIVED or IN_PROGRESS, and an
\* online driver has no such ride.
C6_DriverCoherence ==
  Quiescent =>
    \A d \in Drivers :
      /\ drivers[d].status = "busy" <=> Cardinality(ActiveRides(d)) = 1
      /\ drivers[d].status = "online" => ActiveRides(d) = {}

\* same id, status and PSP reference (completed_at is set with the reference)
SamePayment(a, b) ==
  a.id = b.id /\ a.status = b.status /\ a.ref = b.ref

\* C7: payment exactly once per key. A processPayment call made after an
\* earlier call with the same idempotency key has returned a Payment answers
\* with a Payment equal to that first response and calls no PSP method.
C7_ExactlyOncePerKey ==
  [][\A p \in Callers :
       (pay[p].pc # "idle" /\ pay'[p].pc = "idle" /\ pay[p].prior # NoPayment) =>
         LET answer == IF pay[p].pc = "release" THEN pay[p].resp ELSE idem[pay[p].key]
         IN answer.status \in PaymentStatuses =>
              SamePayment(answer, pay[p].prior) /\ ~pay[p].charged]_vars

\* C8: at most one charge per trip. Over every interleaving of processPayment
\* and retryPayment calls on one trip, callbacks re-run after a serialization
\* failure included, the trip has at most one payments row and the PSP answers
\* completed for it at most once.
C8_OneChargePerTrip ==
  /\ \A t \in TripIds : Cardinality({i \in PaymentIdx : payments[i].trip_id = t}) <= 1
  /\ psp.completed <= 1

\* C9: version monotonicity. Every write that changes an existing ride row
\* increases its version by exactly 1.
C9_VersionMonotonic ==
  [][\A r \in Rides :
       (rides[r].status # "NONE" /\ rides'[r] # rides[r]) =>
         rides'[r].version = rides[r].version + 1]_vars

\* C10: a ride's driver is non-null if and only if its status is one of
\* DRIVER_ASSIGNED, DRIVER_EN_ROUTE, DRIVER_ARRIVED, IN_PROGRESS or COMPLETED.
C10_DriverIffAssigned ==
  \A r \in Rides :
    rides[r].status # "NONE" =>
      (rides[r].driver_id # NoDriver <=> rides[r].status \in ActiveStatuses \cup {"COMPLETED"})

\* C11: tenant isolation. The driver of every offer findDriversForRide has
\* created, and the driver of every ride that has one, is of the ride's
\* tenant: a driver of tenant B is never offered or assigned a ride of
\* tenant A.
C11_TenantIsolation ==
  /\ \A i \in OfferIdx :
       tenant.driver[offers[i].driver_id] = tenant.ride[offers[i].ride_id]
  /\ \A r \in Rides :
       rides[r].driver_id # NoDriver => tenant.driver[rides[r].driver_id] = tenant.ride[r]

\* C12: offer uniqueness under retried matching. After any number of
\* findDriversForRide calls on a ride, at most one ride_offers row exists for
\* each pair of ride and driver.
C12_OfferUniqueness ==
  \A r \in Rides, d \in Drivers :
    Cardinality({i \in OfferIdx : offers[i].ride_id = r /\ offers[i].driver_id = d}) <= 1

\* C13: cancellation of an assigned ride. When cancelRide has succeeded on a
\* ride in DRIVER_ASSIGNED, DRIVER_EN_ROUTE or DRIVER_ARRIVED and has written
\* its driver's row, the ride is CANCELLED, the driver is online, the driver is
\* in the geo index if a last known location exists, and no simulation is
\* active for the driver.
C13_CancelFreesDriver ==
  [][\A d \in Drivers :
       cancelRideFreeDriver(d) =>
         /\ \A r \in Rides : rides[r].driver_id = d => rides'[r].status = "CANCELLED"
         /\ drivers'[d].status = "online"
         /\ d \in loc' => d \in geo'
         /\ d \notin sim']_vars

\* C14: offer expiry. In the running server every offer that stays pending,
\* no driver answering, has status expired some time after its expires_at has
\* passed, and its ride is then in MATCHING.
C14_OfferExpiry ==
  \A i \in 1..MaxOffers :
    (i \in OfferIdx /\ i \in due /\ offers[i].status = "pending")
      ~> (/\ i \in OfferIdx
          /\ offers[i].status = "expired"
          /\ rides[offers[i].ride_id].status = "MATCHING")

\* C15: matching without a candidate. Whenever findDriversForRide has returned
\* having created no offer (no driver nearby, or none of the nearby drivers
\* online) and every write the call issued has been applied, the ride's stored
\* status is REQUESTED, in whatever order the un-awaited MATCHING write and the
\* REQUESTED write land.
C15_NoCandidateRequested ==
  \A r \in Rides :
    (/\ rides[r].status # "NONE"
     /\ fd[r].pc = "idle"
     /\ lateWrites[r] = 0
     /\ \A i \in OfferIdx : offers[i].ride_id # r) => rides[r].status = "REQUESTED"

\* C16: no ride's status becomes IN_PROGRESS, through startTrip or through
\* updateRideStatus, unless its stored status immediately before the change
\* was DRIVER_ARRIVED.
C16_InProgressFromArrived ==
  [][\A r \in Rides :
       (rides'[r].status = "IN_PROGRESS" /\ rides[r].status # "IN_PROGRESS") =>
         rides[r].status = "DRIVER_ARRIVED"]_vars

\* C17: a Trip row exists for a ride if and only if the ride's status has at
\* some point been IN_PROGRESS: every step that sets a ride to IN_PROGRESS
\* inserts the ride's Trip in that same step, and no Trip is inserted by any
\* other step.
C17_TripIffInProgress ==
  [][\A r \in Rides :
       LET becomes == rides'[r].status = "IN_PROGRESS" /\ rides[r].status # "IN_PROGRESS"
           inserted == /\ Len(trips') = Len(trips) + 1
                       /\ trips'[Len(trips')].ride_id = r
       IN becomes <=> inserted]_vars

C19_FailedOnlyRetried ==
  [][\A p \in Callers :
       (/\ pay[p].pc = "psp" /\ pay'[p].pc = "commit"
        /\ pay[p].txid \in PaymentIdx
        /\ payments[pay[p].txid].status = "failed") => pay[p].id # 0]_vars

\* C20: initiateRefund sets a payment to refunded only if, at the moment of
\* the update, its stored status is completed and its method is not cash, so
\* that a payment is refunded at most once, two concurrent refund requests
\* included.
C20_RefundOnlyCompleted ==
  [][\A p \in Callers :
       initiateRefundUpdate(p) =>
         /\ payments[pay[p].id].status = "completed"
         /\ payments[pay[p].id].method # "cash"]_vars

\* C21: idempotency middleware replay. A request with the method, URL and
\* idempotency key of an earlier request that has completed is answered with
\* the earlier status code and body, and the route handler does not run for
\* it.
C21_MiddlewareReplay ==
  \A c \in Callers :
    (mwReq[c].pc = "sent" /\ mwReq[c].prior # NoResponse) =>
      (mwReq[c].resp = mwReq[c].prior /\ ~mwReq[c].ran)

\* the calls that hold, or are about to release, the lock of resource r
LockUsers(r) ==
  {d \in Drivers : acc[d].pc \in {"lock", "tx", "release"} /\ acc[d].ride = r}
    \cup {WithLockHolder(c) : c \in {c \in Callers : wl[c].pc \in {"fn", "finally"}
                                                      /\ wl[c].resource = r}}

Nearest(m, n, k) == 2 * (k * m - n) <= k /\ 2 * (n - k * m) <= k

\* the rates the claim names for a tier, in paise per kilometre and in tenths
\* of a paisa per hundredth of a minute
PerKm(tier) == CASE tier = "premium" -> 18 [] tier = "xl" -> 22 [] OTHER -> 12

PerMin(tier) == CASE tier = "premium" -> 25 [] tier = "xl" -> 30 [] OTHER -> 15

BaseFare(tier) == CASE tier = "premium" -> 10000 [] tier = "xl" -> 15000 [] OTHER -> 5000

\* C23: fare closure. For every tier, distance, duration and surge multiplier
\* of the grid, the breakdown calculateFare returns has distanceFare =
\* distance x per_km, timeFare = duration x per_min, surgeFare = subtotal x
\* (surge - 1) when surge > 1 and 0 otherwise, taxes = 5% of (subtotal +
\* surgeFare), each rounded to 2 decimals, and total = baseFare + distanceFare
\* + timeFare + surgeFare + taxes; an unknown tier is charged the economy rates.
C23_FareClosure ==
  fare.returned =>
    LET b == fare.breakdown
    IN  /\ b.baseFare = BaseFare(fare.tier)
        /\ Nearest(b.distanceFare, fare.distanceKm * PerKm(fare.tier), 1)
        /\ Nearest(b.timeFare, fare.durationMins * PerMin(fare.tier), 10)
        /\ b.subtotal = b.baseFare + b.distanceFare + b.timeFare
        /\ IF fare.surgeMultiplier > 100
             THEN Nearest(b.surgeFare, b.subtotal * (fare.surgeMultiplier - 100), 100)
             ELSE b.surgeFare = 0
        /\ Nearest(b.taxes, (b.subtotal + b.surgeFare) * 5, 100)
        /\ b.total = b.baseFare + b.distanceFare + b.timeFare + b.surgeFare + b.taxes

\* a surged fare of an unknown tier has been returned, with a time fare and
\* taxes that needed rounding
C23_Witness ==
  /\ fare.returned
  /\ fare.tier = "unknown"
  /\ fare.surgeMultiplier > 100
  /\ fare.breakdown.surgeFare > 0
  /\ (fare.durationMins * 15) % 10 # 0
  /\ ((fare.breakdown.subtotal + fare.breakdown.surgeFare) * 5) % 100 # 0

\* C24: a socket that has not completed register cannot join a ride room:
\* every socket in a room ride:<id> is a registered socket.
C24_RideRoomRegistered ==
  \A s \in Sockets, r \in Rides :
    Room("ride", r) \in sock[s].rooms => sock[s].userId # 0

\* C25: a RIDE_OFFER notification is emitted as ride:offer only to sockets
\* joined to user:<driverId> of the offered driver; a socket that is merely
\* subscribed to ride:<rideId> does not receive it.
C25_OfferOnlyToDriver ==
  \A s \in Sockets : \A e \in sock[s].received :
    e.event = "ride:offer" => Room("user", e.userId) \in sock[s].rooms

\* every offer of ride r has been declined
AllDeclined(r, os) ==
  /\ \E i \in DOMAIN os : os[i].ride_id = r
  /\ \A i \in DOMAIN os : os[i].ride_id = r => os[i].status = "declined"

\* C26: when the last open offer of a ride in MATCHING is declined, so that
\* every offer of the ride is declined, the ride's stored status returns to
\* REQUESTED.
C26_DeclinedBackToRequested ==
  [][\A r \in Rides, d \in Drivers :
       (declineRide(r, d) /\ rides[r].status = "MATCHING" /\ AllDeclined(r, offers'))
         => rides'[r].status = "REQUESTED"]_vars

\* C27: in a concurrent acceptance of one ride by two drivers that both hold
\* pending offers, a call that fails fails with Conflict 'already assigned',
\* in every interleaving: never with LockAcquisitionError, another Conflict or
\* InvalidStateTransition.
C27_LoserAlreadyAssigned ==
  \A d \in Drivers :
    (acc[d].pc = "idle" /\ acc[d].res \notin {"none", "ok"}) =>
      acc[d].res = "Conflict: Ride has already been assigned to another driver"

\* the drivers whose acceptRide on ride r has succeeded
Assigned(r) == {d \in Drivers : acc[d].ride = r /\ acc[d].res = "ok"}

\* at most one driver is assigned to a ride
OneAssigned == \A r \in Rides : Cardinality(Assigned(r)) <= 1

\* C28: with the distributed lock unavailable and the mock lock handed to
\* every caller, concurrent acceptRide calls on one ride assign at most one
\* driver and accept at most one offer.
C28_RowLockExclusion ==
  \A r \in Rides :
    /\ Cardinality(Assigned(r)) <= 1
    /\ Cardinality(AcceptedOffers(r)) <= 1

\* C29: the transition guard of updateRideStatus is evaluated against the
\* stored status: a write of updateRideStatus that succeeds makes a transition
\* that STATUS_TRANSITIONS allows from the status stored at that moment,
\* whatever a cached copy shows and whatever has happened since the guard.
C29_GuardOnStoredStatus ==
  [][\A c \in Callers :
       (updateRideStatusWrite(c) /\ urs'[c].res = "ok")
         => urs[c].new \in STATUS_TRANSITIONS(rides[urs[c].ride].status)]_vars

\* the DRIVER_ASSIGNED notifications published for driver d on ride r
AssignedPublished(r, d) ==
  {m \in topic : m.type = "DRIVER_ASSIGNED" /\ m.ride_id = r /\ m.driver_id = d}

\* C30: side effects of acceptance follow the commit. Once an acceptRide call
\* has returned, the driver is out of the geo index, DRIVER_ASSIGNED is
\* published and the TO_PICKUP simulation runs only if the call's assignment
\* was committed, and DRIVER_ASSIGNED is published at most once per
\* assignment, whatever was rolled back or retried.
C30_EffectsFollowCommit ==
  \A d \in Drivers, r \in Rides :
    /\ Cardinality(AssignedPublished(r, d)) <= 1
    /\ (acc[d].pc = "idle" /\ acc[d].ride = r /\ rides[r].driver_id # d) =>
         (d \in geo /\ d \notin sim /\ AssignedPublished(r, d) = {})

\* C31: fenced release of the payment lock. A processPayment call never
\* deletes payment_lock:<tripId> while the key holds another call's token,
\* also when its lease has run out and the lock was taken again between its
\* read of the value and its delete.
C31_FencedRelease ==
  [][\A p \in Callers, t \in TripIds :
       (releasePaymentLockDel(p) /\ pay[p].trip = t /\ payLock[t] \notin {0, p})
         => payLock'[t] = payLock[t]]_vars

\* in this step the PSP has been invoked at most once, and a call that returns
\* a Payment for a key returns the Payment first answered for the key
OneChargeSameAnswer ==
  /\ psp'.calls <= 1
  /\ \A p \in Callers :
       (pay[p].pc # "idle" /\ pay'[p].pc = "idle" /\ ret[pay[p].key] # NoPayment) =>
         LET answer == IF pay[p].pc = "release" THEN pay[p].resp
                       ELSE CachedPayment(pay[p].key)
         IN answer.status \in PaymentStatuses => SamePayment(answer, ret[pay[p].key])

\* C32: any two payment safeguards suffice. With exactly one of the
\* idempotency cache, the per-trip lock and the unique constraint out of
\* order, processPayment calls with one idempotency key invoke the PSP at most
\* once, and every call that answers with a Payment answers with the Payment
\* the first call answered.
C32_TwoSafeguardsSuffice ==
  [][(off \in Safeguards) => OneChargeSameAnswer]_vars

\* C33: at most one simulation timer is active per driver. Every interval
\* that runs is the one registered in activeSimulations for its driver, so
\* stopDriverSimulation leaves no interval of the driver running.
C33_OneTimerPerDriver ==
  \A i \in intervals : activeSimulations[i.driverId] = i.id

\* C34: acceptRide passes its checks only when the driver holds an offer for
\* the ride that is pending and whose expires_at has not passed; after
\* expires_at the accept fails, whether or not the sweep has run.
C34_TimeBoxedAccept ==
  [][\A d \in Drivers :
       (acc[d].pc = "lock" /\ acc'[d].pc = "tx")
         => (\E i \in OfferIdx : /\ offers[i].ride_id = acc[d].ride
                                 /\ offers[i].driver_id = d
                                 /\ offers[i].status = "pending"
                                 /\ i \notin due)]_vars

\* C35: a ride has at most one trip: whatever updateRideStatusForTrip,
\* updateRideStatus and startTrip calls are made on it, no second trips row
\* is ever inserted for the ride.
C35_OneTripPerRide ==
  \A r \in Rides : Cardinality({t \in TripIdx : trips[t].ride_id = r}) <= 1

\* C36: endTrip succeeds at most once per trip, also under concurrent calls:
\* the success completes the trip and its ride, sets the driver online and
\* adds exactly 1 to the driver's total_rides; a completed trip never changes
\* again, and an endTrip on it fails with InvalidStateTransition and leaves
\* trips, rides and drivers as they were.
EndTripSucceeds(t) ==
  /\ trips[t].status = "IN_PROGRESS"
  /\ trips'[t].status = "COMPLETED"
  /\ rides'[trips[t].ride_id].status = "COMPLETED"
  /\ LET d == rides[trips[t].ride_id].driver_id
     IN d # NoDriver => /\ drivers'[d].status = "online"
                        /\ total_rides'[d] = total_rides[d] + 1
                        /\ \A e \in Drivers \ {d} : total_rides'[e] = total_rides[e]

C36_EndTripOnce ==
  [][/\ (\A c \in Callers :
          (et[c].pc = "tx" /\ et'[c].res = "ok") => EndTripSucceeds(et[c].trip))
     /\ (\A t \in TripIdx :
          trips[t].status = "COMPLETED" => trips'[t] = trips[t])
     /\ (\A c \in Callers, t \in TripIdx :
          (et[c].pc = "idle" /\ et'[c] # et[c] /\ et'[c].trip = t /\ trips[t].status = "COMPLETED")
            => (/\ et'[c].pc = "idle"
                /\ et'[c].res = "InvalidStateTransition"
                /\ UNCHANGED <<trips, rides, drivers, total_rides>>))
     /\ (total_rides' # total_rides => (\E t \in TripIdx : EndTripSucceeds(t)))]_vars

C36_Witness ==
  \E c1, c2 \in Callers :
    /\ c1 # c2
    /\ et[c1].res = "ok" /\ et[c1].pc = "idle"
    /\ et[c2].res = "InvalidStateTransition" /\ et[c2].trip = et[c1].trip
    /\ trips[et[c1].trip].status = "COMPLETED"
    /\ total_rides[1] = 1

\* C37: a transaction failing with 40001 or 40P01 every time is retried 3
\* times after its first attempt, with backoffs of 100, 200 and 300 ms; another
\* error is thrown by the attempt that met it, without a retry; every failed
\* attempt is rolled back and its client released before the next attempt or
\* the throw.
C37_RetrySchedule ==
  \A c \in Callers :
    /\ (xt[c].pc = "done" /\ xt[c].res = "thrown"
          /\ xt[c].errors[Len(xt[c].errors)] \in {"40001", "40P01"})
         => xt[c].waits = <<100, 200, 300>>
    /\ (\A n \in 1..Len(xt[c].errors) :
          xt[c].errors[n] = "other" => (n = Len(xt[c].errors) /\ ~xt[c].again))
    /\ (xt[c].pc \in {"next", "done"} => ~xt[c].client)
    /\ (xt[c].pc = "callback" => xt[c].rolledBack = xt[c].attempt - 1)
    /\ (xt[c].pc \in {"next", "done"} /\ xt[c].res # "ok" => xt[c].rolledBack = xt[c].attempt)

\* C38: whenever findDriversForRide inserts a pending offer for a ride (and
\* publishes its RIDE_OFFER), the stored status of that ride is MATCHING.
C38_OffersOnlyWhileMatching ==
  [][Len(offers') > Len(offers)
       => rides[offers'[Len(offers')].ride_id].status = "MATCHING"]_vars

\* C39: every entry of the payment idempotency cache is a committed payment
\* (the payments table holds a row with the same id and status), and
\* PAYMENT_COMPLETED / PAYMENT_RECEIVED are published only for payments that
\* are committed as completed, also when the transaction fails at commit or
\* is retried.
C39_CacheCommitted ==
  /\ \A k \in Keys :
       idem[k] # NoPayment
         => (\E i \in PaymentIdx : /\ payments[i].id = idem[k].id
                                   /\ payments[i].status = idem[k].status)
  /\ \A m \in topic :
       m.type \in {"PAYMENT_COMPLETED", "PAYMENT_RECEIVED"}
         => (\E i \in PaymentIdx : /\ payments[i].id = m.n
                                   /\ payments[i].status = "completed")

\* C40: an offer's status changes only away from pending: a declined,
\* expired, cancelled or accepted offer keeps its status through every later
\* acceptRide, declineRide and expiry sweep.
C40_OfferStatusFinal ==
  [][\A i \in OfferIdx :
       offers[i].status # "pending" => offers'[i].status = offers[i].status]_vars

====
